---------------------------- MODULE Spec2Model ----------------------------
(***************************************************************************)
(* Model of the span extraction and conflict resolution engine of          *)
(* extraction_script.py: the span merger (dedupe_entities), the entity     *)
(* formatter (to_final_entities), the per-utterance pipeline of the main   *)
(* loop and the contextual budget heuristic (is_likely_budget_token); and  *)
(* of the HTTP host of the bot, handle_messages of mytravel/app.py.        *)
(*                                                                         *)
(* Python dicts are records; a key that a dict does not hold is a field    *)
(* that is not in the record's DOMAIN, so dict.get(k) is Get(d, k).        *)
(* Python lists are sequences.  Character offsets are 0-based as in the    *)
(* source; sequences are 1-based, so text[i] of the source is text[i+1].   *)
(***************************************************************************)
EXTENDS Integers, Sequences, FiniteSets, Bags, TLC

VARIABLES
    pc,              \* position of the main loop body for the current utterance
    utter_entities,  \* the candidate list handed to dedupe_entities (line 583)
    deduped,         \* result of dedupe_entities (line 583)
    final_entities,  \* result of to_final_entities (line 584)
    text_len,        \* len(text) of the utterance being processed
    raw,             \* what each matcher finds in the text: source -> list of spans
    use_spacy,       \* USE_SPACY (lines 210-216)
    fails,           \* the extractor that raises on this utterance, or "none"
    extracted,       \* result of extract_entities_from_text (lines 533-536)
    budget_call,     \* arguments of a call of is_likely_budget_token
    budget_result,   \* what that call returned
    request,         \* the HTTP request given to handle_messages
    env,             \* module state and collaborators of the handler: BOT_AVAILABLE,
                     \* _IMPORT_ERROR, os.environ, what the adapter and the bot do
    body,            \* handle_messages: body
    raw_text,        \* handle_messages: raw_text
    activity,        \* handle_messages: activity
    adapter_calls,   \* the calls of adapter.process_activity
    bot_calls,       \* the calls of bot.on_message_activity
    response,        \* the web.Response the handler returns
    date_call,       \* find_date_spans: text, and what search_dates does with it
    date_found,      \* find_date_spans: the list it returns
    frames,          \* the active calls of adapter.process_activity, innermost last
    original_calls,  \* how often BotFrameworkAdapter.process_activity was invoked
    conversations,   \* MyBot.conversations: conversation id -> its state dict
    heap,            \* the state dicts that on_message_activity created
    handlers         \* the calls of MyBot.on_message_activity in progress

extractvars == <<raw, use_spacy, fails, extracted>>

budgetvars == <<budget_call, budget_result>>

httpvars ==
    <<request, env, body, raw_text, activity, adapter_calls, bot_calls, response>>

datevars == <<date_call, date_found>>

adaptervars == <<frames, original_calls>>

botvars == <<conversations, heap, handlers>>

vars ==
    <<pc, utter_entities, deduped, final_entities, text_len, extractvars, budgetvars,
      httpvars, datevars, adaptervars, botvars>>

(***************************************************************************)
(* Bounds of the model.                                                    *)
(***************************************************************************)
MaxLen == 3      \* longest candidate list handed to the merger
MaxPos == 2      \* largest character offset of a merger candidate
MaxFmtLen == 2   \* longest entity list handed directly to the formatter
MaxFmtPos == 1   \* largest character offset of the text of a formatter input
MaxMatches == 2  \* most matches that all matchers together find in one utterance
MaxPipePos == 1  \* largest character offset of the text of a pipeline utterance

(***************************************************************************)
(* Generic helpers.                                                        *)
(***************************************************************************)
None == "<None>"

Get(d, k) == IF k \in DOMAIN d THEN d[k] ELSE None

Range(s) == {s[i] : i \in DOMAIN s}

RemoveAt(s, i) == SubSeq(s, 1, i - 1) \o SubSeq(s, i + 1, Len(s))

InsertAt(s, i, x) == SubSeq(s, 1, i - 1) \o <<x>> \o SubSeq(s, i, Len(s))

(***************************************************************************)
(* str.lower() on category names: a table over every name of BLOCKLIST and *)
(* every category the extractors emit.  A name without an upper-case       *)
(* letter is its own lower-case form.                                      *)
(***************************************************************************)
Lower(s) ==
    CASE s = "EVENT"              -> "event"
      [] s = "FAC"                -> "fac"
      [] s = "LAW"                -> "law"
      [] s = "PRODUCT"            -> "product"
      [] s = "NORP"               -> "norp"
      [] s = "PERCENT"            -> "percent"
      [] s = "PERSON"             -> "person"
      [] s = "WORK_OF_ART"        -> "work_of_art"
      [] s = "Act"                -> "act"
      [] s = "Action"             -> "action"
      [] s = "Agent"              -> "agent"
      [] s = "Airline"            -> "airline"
      [] s = "Airlines"           -> "airlines"
      [] s = "Class"              -> "class"
      [] s = "Classes"            -> "classes"
      [] s = "Confirmation"       -> "confirmation"
      [] s = "Email"              -> "email"
      [] s = "Emails"             -> "emails"
      [] s = "Flight"             -> "flight"
      [] s = "Flights"            -> "flights"
      [] s = "Meal"               -> "meal"
      [] s = "Meals"              -> "meals"
      [] s = "Name"               -> "name"
      [] s = "Names"              -> "names"
      [] s = "Preference"         -> "preference"
      [] s = "Preferences"        -> "preferences"
      [] s = "Seat"               -> "seat"
      [] s = "Seats"              -> "seats"
      [] s = "Status"             -> "status"
      [] s = "Statuses"           -> "statuses"
      [] s = "Ticket"             -> "ticket"
      [] s = "Tickets"            -> "tickets"
      [] s = "Type"               -> "type"
      [] s = "Types"              -> "types"
      [] s = "Value"              -> "value"
      [] s = "Values"             -> "values"
      [] s = "Date"               -> "date"
      [] s = "Budget"             -> "budget"
      [] s = "Time"               -> "time"
      [] s = "Location"           -> "location"
      [] s = "AirportCode"        -> "airportcode"
      [] s = "NumPassengers"      -> "numpassengers"
      [] s = "DepartureDate"      -> "departuredate"
      [] s = "Person"             -> "person"
      [] s = "TICKET"             -> "ticket"
      [] s = "GPE"                -> "gpe"
      [] s = "LOC"                -> "loc"
      [] OTHER                    -> s

(***************************************************************************)
(* BLOCKLIST (lines 186-191) and BLOCKLIST_LOWER (lines 193-196).          *)
(***************************************************************************)
BLOCKLIST ==
    {"EVENT", "FAC", "LAW", "PRODUCT", "NORP", "PERCENT", "PERSON", "WORK_OF_ART",
     "Act", "Action", "Agent", "Airline", "Airlines", "Class", "Classes",
     "Confirmation", "Email", "Emails", "Flight", "Flights", "Meal", "Meals",
     "Name", "Names", "Preference", "Preferences", "Seat", "Seats", "Status",
     "Statuses", "Ticket", "Tickets", "Type", "Types", "Value", "Values"}

BLOCKLIST_LOWER == {Lower(b) : b \in BLOCKLIST}

(***************************************************************************)
(* dedupe_entities (lines 351-417).                                        *)
(***************************************************************************)

\* the default of priority.get(category, 0) above every rank of the table
priority_UnlistedHighest(category) ==
    CASE category = "Date"          -> 6
      [] category = "Budget"        -> 5
      [] category = "Time"          -> 4
      [] category = "Location"      -> 3
      [] category = "AirportCode"   -> 2
      [] category = "NumPassengers" -> 1
      [] OTHER                      -> 7

\* the priority table of line 378; priority.get(category, 0)
priority(category) ==
    CASE category = "Date"          -> 6
      [] category = "Budget"        -> 5
      [] category = "Time"          -> 4
      [] category = "Location"      -> 3
      [] category = "AirportCode"   -> 2
      [] category = "NumPassengers" -> 1
      [] OTHER                      -> 0

\* lines 359-366: one normalized item; int() of an int is that int
NormalizeItem(e) ==
    [category |-> Get(e, "category"), start |-> e.offset, end |-> e.endPos,
     text |-> Get(e, "text")]

NormalizeItems(entities) == [i \in 1..Len(entities) |-> NormalizeItem(entities[i])]

\* line 371: the key of the seen-set
DupKey(it) == <<it.category, it.start, it.end>>

\* lines 368-375: keep the first item of every key, in list order
RemoveExactDuplicates(items) ==
    LET F[i \in 0..Len(items)] ==
            IF i = 0 THEN <<>>
            ELSE IF \E j \in 1..(i - 1) : DupKey(items[j]) = DupKey(items[i])
                 THEN F[i - 1]
                 ELSE Append(F[i - 1], items[i])
    IN  F[Len(items)]

\* line 381: the sort key (start, -priority, -(end - start))
SortKey(x) == <<x.start, 0 - priority(x.category), 0 - (x.end - x.start)>>

\* tuple comparison of two sort keys
KeyLess(a, b) ==
    \/ a[1] < b[1]
    \/ a[1] = b[1] /\ a[2] < b[2]
    \/ a[1] = b[1] /\ a[2] = b[2] /\ a[3] < b[3]

\* list.sort(key=...) is stable: an item goes behind every item whose key is not greater
SortInsert(sorted, x) ==
    LET later == {j \in 1..Len(sorted) : KeyLess(SortKey(x), SortKey(sorted[j]))}
    IN  IF later = {} THEN Append(sorted, x)
        ELSE InsertAt(sorted, CHOOSE j \in later : \A k \in later : j <= k, x)

\* the sort of line 381 left out: the sweep runs in list order
SortUniq_Unsorted(uniq) == uniq

\* line 381: uniq.sort(key=...)
SortUniq(uniq) ==
    LET F[i \in 0..Len(uniq)] ==
            IF i = 0 THEN <<>> ELSE SortInsert(F[i - 1], uniq[i])
    IN  F[Len(uniq)]

\* a half-open overlap test: spans that share only an end point do not conflict
OverlappingHalfOpen(cand, kept) == ~(cand.end <= kept.start \/ cand.start >= kept.end)

\* line 387: the closed-interval overlap test of the sweep
Overlapping(cand, kept) == ~(cand.end < kept.start \/ cand.start > kept.end)

\* list.remove(x): drops the first element equal to x
ListRemove(lst, x) ==
    LET at == {j \in 1..Len(lst) : lst[j] = x}
    IN  IF at = {} THEN lst
        ELSE RemoveAt(lst, CHOOSE j \in at : \A k \in at : j <= k)

\* the rank comparison left out: the longer span wins whatever the categories
CandWinsLengthOnly(cand, kept) == (cand.end - cand.start) > (kept.end - kept.start)

\* the length comparison of the tie-break reversed
CandWinsShorter(cand, kept) ==
    LET p_c == priority(cand.category)
        p_k == priority(kept.category)
    IN  \/ p_c > p_k
        \/ p_c = p_k /\ (cand.end - cand.start) < (kept.end - kept.start)

\* lines 392-402: the candidate takes the place of the kept span it beats
CandWins(cand, kept) ==
    LET p_c == priority(cand.category)
        p_k == priority(kept.category)
    IN  \/ p_c > p_k
        \/ p_c = p_k /\ (cand.end - cand.start) > (kept.end - kept.start)

\* the winning candidate put at the head of the accepted list instead of its end
SweepBodyInsertFront(result, cand) ==
    LET hits == {k \in 1..Len(result) : Overlapping(cand, result[k])}
    IN  IF hits = {} THEN Append(result, cand)
        ELSE LET kept == result[CHOOSE k \in hits : \A h \in hits : k <= h]
             IN  IF CandWins(cand, kept)
                 THEN <<cand>> \o ListRemove(result, kept)
                 ELSE result

\* result.append(cand) of lines 395 and 402 left out after result.remove(kept)
SweepBody_RemoveWithoutAppend(result, cand) ==
    LET hits == {k \in 1..Len(result) : Overlapping(cand, result[k])}
    IN  IF hits = {} THEN Append(result, cand)
        ELSE LET kept == result[CHOOSE k \in hits : \A h \in hits : k <= h]
             IN  IF CandWins(cand, kept)
                 THEN ListRemove(result, kept)
                 ELSE result

\* lines 385-406: one iteration of the sweep, on the first overlapping kept span only
SweepBody(result, cand) ==
    LET hits == {k \in 1..Len(result) : Overlapping(cand, result[k])}
    IN  IF hits = {} THEN Append(result, cand)
        ELSE LET kept == result[CHOOSE k \in hits : \A h \in hits : k <= h]
             IN  IF CandWins(cand, kept)
                 THEN Append(ListRemove(result, kept), cand)
                 ELSE result

\* lines 383-406: the accepted list after the first n sorted candidates
SweepPrefix(uniq, n) ==
    LET F[i \in 0..n] == IF i = 0 THEN <<>> ELSE SweepBody(F[i - 1], uniq[i])
    IN  F[n]

\* lines 409-416: back to the offset/endPos form
OutputItem(r) ==
    [category |-> r.category, offset |-> r.start, endPos |-> r.end, text |-> r.text]

\* the sorted, duplicate-free candidate list the sweep runs over (lines 359-381)
SortedUniq(entities) == SortUniq(RemoveExactDuplicates(NormalizeItems(entities)))

dedupe_entities(entities) ==
    IF entities = <<>> THEN <<>>
    ELSE LET uniq   == SortedUniq(entities)
             result == SweepPrefix(uniq, Len(uniq))
         IN  [i \in 1..Len(result) |-> OutputItem(result[i])]

(***************************************************************************)
(* to_final_entities (lines 310-325).                                      *)
(***************************************************************************)

\* line 313: ent.get('category') or ent.get('entity'); None and '' are falsy
CategoryOf(ent) ==
    IF Get(ent, "category") \notin {None, ""} THEN Get(ent, "category")
    ELSE Get(ent, "entity")

\* the blocklist test without lower-casing the category
IsBlockedExactCase(cat) == cat \in BLOCKLIST

\* line 315: the case-insensitive blocklist test
IsBlocked(cat) == Lower(cat) \in BLOCKLIST_LOWER

\* the length test of line 322 off by one: a span with end = start - 1 passes
FinalSkipsNegativeOnly(ent) ==
    LET cat == CategoryOf(ent)
    IN  \/ cat \in {None, ""}
        \/ IsBlocked(cat)
        \/ "offset" \notin DOMAIN ent
        \/ "endPos" \notin DOMAIN ent
        \/ ent.endPos - ent.offset + 1 < 0

\* lines 313-323: the entity is dropped
FinalSkips(ent) ==
    LET cat == CategoryOf(ent)
    IN  \/ cat \in {None, ""}
        \/ IsBlocked(cat)
        \/ "offset" \notin DOMAIN ent
        \/ "endPos" \notin DOMAIN ent
        \/ ent.endPos - ent.offset + 1 <= 0

\* line 324
FinalItem(ent) ==
    [category |-> CategoryOf(ent), offset |-> ent.offset,
     length |-> ent.endPos - ent.offset + 1]

to_final_entities(entity_list) ==
    LET F[i \in 0..Len(entity_list)] ==
            IF i = 0 THEN <<>>
            ELSE IF FinalSkips(entity_list[i]) THEN F[i - 1]
                 ELSE Append(F[i - 1], FinalItem(entity_list[i]))
    IN  F[Len(entity_list)]

(***************************************************************************)
(* The matchers of one utterance.  The regular-expression engine, the date *)
(* parser, the statistical model and the frame annotation are outside the  *)
(* code; what each of them finds in the text is raw[source], a list of     *)
(* spans <<start, end>>.  The code that filters and combines these matches *)
(* is modelled below as it is written.                                     *)
(***************************************************************************)

\* ENTITY_PATTERNS (lines 199-207): the rules in list order, and their categories
RuleSources == <<"rule1", "rule2", "rule3", "rule4", "rule5", "rule6", "rule7">>

RuleCategory ==
    <<"DepartureDate", "DepartureDate", "Time", "Budget", "Budget", "AirportCode",
      "NumPassengers">>

\* doc.ents of the statistical model, one source per label
EntSources == {"ent_GPE", "ent_MONEY", "ent_PERSON"}

EntLabel(src) ==
    CASE src = "ent_GPE"    -> "GPE"
      [] src = "ent_MONEY"  -> "MONEY"
      [] src = "ent_PERSON" -> "PERSON"

\* the sources fed by the statistical model: doc.ents and the numeric tokens
\* whose head or neighbour lemma is a budget cue (lines 283-289, 567-573)
SpacySources == EntSources \cup {"dep"}

\* frame slots whose value find_positions locates in the text (lines 506-530)
FrameSources == {"frame_name", "frame_dst_city"}

\* line 522: the category of a frame candidate is the lower-cased slot name
FrameCategory(src) == IF src = "frame_name" THEN "name" ELSE "dst_city"

\* parser:     matches of dateparser whose text re.search finds (lines 19-27)
\* iso:        matches of the fallback regex of line 29
\* num_budget: 3-6 digit tokens (line 251) that is_likely_budget_token accepts
\* airport:    three-capital words with a context cue (lines 297-299)
\* gaz:        gazetteer names found in the text (lines 341-346)
Sources ==
    {"parser", "iso", "num_budget", "airport", "gaz"}
        \cup Range(RuleSources) \cup SpacySources \cup FrameSources

NoMatches == [src \in Sources |-> <<>>]

\* the extraction variables where only the merger or the formatter runs
NoExtraction ==
    /\ raw = NoMatches
    /\ use_spacy = FALSE
    /\ fails = "none"
    /\ extracted = <<>>

Entity(category, span) ==
    [category |-> category, offset |-> span[1], endPos |-> span[2], text |-> "t"]

EntitiesOf(category, spans) == [i \in 1..Len(spans) |-> Entity(category, spans[i])]

\* is_token_overlapping_spans (lines 36-37): an end point of the token lies in a span
is_token_overlapping_spans(start, end, spans) ==
    \E i \in DOMAIN spans :
        \/ spans[i][1] <= start /\ start <= spans[i][2]
        \/ spans[i][1] <= end /\ end <= spans[i][2]

\* lines 246, 255, 275, 565: the same test against a list of entity dicts
EndpointInEntity(entities, s, e) ==
    \E i \in DOMAIN entities :
        \/ entities[i].offset <= s /\ s <= entities[i].endPos
        \/ entities[i].offset <= e /\ e <= entities[i].endPos

\* lines 293, 577: an entity with exactly this span exists
SameSpanExists(entities, s, e) ==
    \E i \in DOMAIN entities : entities[i].offset = s /\ entities[i].endPos = e

\* lines 546, 553: an entity with this category and span exists
IsDup(entities, ent) ==
    \E i \in DOMAIN entities :
        /\ entities[i].category = ent.category
        /\ entities[i].offset = ent.offset
        /\ entities[i].endPos = ent.endPos

\* find_date_spans (lines 10-31): a raising parser gives res = None (lines 20-21),
\* the fallback scan of lines 29-30 always runs
find_date_spans(r, f) == (IF f = "dateparser" THEN <<>> ELSE r["parser"]) \o r["iso"]

\* lines 242-248 and 251-259: matches are accepted in order unless an end point
\* lies in a date span or in an entity accepted before
AddMatches(entities, date_spans, category, matches) ==
    LET F[i \in 0..Len(matches)] ==
            IF i = 0 THEN entities
            ELSE LET s == matches[i][1]
                     e == matches[i][2]
                 IN  IF \/ is_token_overlapping_spans(s, e, date_spans)
                        \/ EndpointInEntity(F[i - 1], s, e)
                     THEN F[i - 1]
                     ELSE Append(F[i - 1], Entity(category, matches[i]))
    IN  F[Len(matches)]

\* the try of line 241 around the whole loop of line 240: the rules after the
\* raising one are not applied
PatternPass_AbortOnError(entities, date_spans, r, f) ==
    LET F[k \in 0..Len(RuleSources)] ==
            IF k = 0 THEN entities
            ELSE IF \E j \in 1..k : f = RuleSources[j] THEN F[k - 1]
                 ELSE AddMatches(F[k - 1], date_spans, RuleCategory[k], r[RuleSources[k]])
    IN  F[Len(RuleSources)]

\* lines 240-250: the rules in list order; a rule that raises re.error is skipped
PatternPass(entities, date_spans, r, f) ==
    LET F[k \in 0..Len(RuleSources)] ==
            IF k = 0 THEN entities
            ELSE IF f = RuleSources[k] THEN F[k - 1]
                 ELSE AddMatches(F[k - 1], date_spans, RuleCategory[k], r[RuleSources[k]])
    IN  F[Len(RuleSources)]

\* lines 264-273: the label remapping
EntCategory(label) ==
    CASE label \in {"GPE", "LOC", "ORG"} -> "Location"
      [] label = "DATE"                  -> "Date"
      [] label = "TIME"                  -> "Time"
      [] label = "MONEY"                 -> "Budget"
      [] OTHER                           -> label

\* text order of spans: by start, then by end
SpanBefore(a, b) == a[1] < b[1] \/ (a[1] = b[1] /\ a[2] <= b[2])

RECURSIVE InTextOrder(_)
\* a set of <<label, span>> pairs as a list in text order
InTextOrder(S) ==
    IF S = {} THEN <<>>
    ELSE LET m == CHOOSE x \in S : \A y \in S : SpanBefore(x[2], y[2])
         IN  <<m>> \o InTextOrder(S \ {m})

\* doc.ents (line 262): the entities of all labels in text order
DocEnts(r) ==
    InTextOrder(UNION {{<<EntLabel(src), r[src][i]>> : i \in 1..Len(r[src])} :
                          src \in EntSources})

\* lines 262-280: the entities of the statistical model
SpacyEntPass(entities, ents) ==
    LET F[i \in 0..Len(ents)] ==
            IF i = 0 THEN entities
            ELSE LET et == EntCategory(ents[i][1])
                     s  == ents[i][2][1]
                     e  == ents[i][2][2]
                 IN  IF \/ EndpointInEntity(F[i - 1], s, e)
                        \/ Lower(et) \in BLOCKLIST_LOWER
                     THEN F[i - 1]
                     ELSE Append(F[i - 1], Entity(et, ents[i][2]))
    IN  F[Len(ents)]

\* lines 283-294 and 567-578: numeric tokens next to a budget cue become Budget
DepBudgetPass(entities, date_spans, tokens) ==
    LET F[i \in 0..Len(tokens)] ==
            IF i = 0 THEN entities
            ELSE LET s == tokens[i][1]
                     e == tokens[i][2]
                 IN  IF /\ ~is_token_overlapping_spans(s, e, date_spans)
                        /\ ~SameSpanExists(F[i - 1], s, e)
                     THEN Append(F[i - 1], Entity("Budget", tokens[i]))
                     ELSE F[i - 1]
    IN  F[Len(tokens)]

\* lines 297-302: airport codes with a context cue
AirportPass(entities, codes) ==
    LET F[i \in 0..Len(codes)] ==
            IF i = 0 THEN entities
            ELSE IF \E j \in DOMAIN F[i - 1] :
                        /\ F[i - 1][j].offset <= codes[i][1]
                        /\ codes[i][1] <= F[i - 1][j].endPos
                 THEN F[i - 1]
                 ELSE Append(F[i - 1], Entity("AirportCode", codes[i]))
    IN  F[Len(codes)]

\* lines 303-306
NormalizeLocation(entities) ==
    [i \in 1..Len(entities) |->
        IF Lower(entities[i].category) \in {"location", "gpe", "loc"}
        THEN [entities[i] EXCEPT !.category = "Location"]
        ELSE entities[i]]

\* line 261: nlp(text) is called outside any try of extract_entities_from_text
ExtractRaises(spacy, f) == spacy /\ f = "spacy"

\* extract_entities_from_text (lines 235-307) when it returns
extract_entities_from_text(r, spacy, f) ==
    LET date_spans == find_date_spans(r, f)
        dates      == EntitiesOf("Date", date_spans)
        patterns   == PatternPass(dates, date_spans, r, f)
        numeric    == AddMatches(patterns, date_spans, "Budget", r["num_budget"])
        model      == IF spacy
                      THEN DepBudgetPass(SpacyEntPass(numeric, DocEnts(r)),
                                         date_spans, r["dep"])
                      ELSE numeric
    IN  NormalizeLocation(AirportPass(model, r["airport"]))

(***************************************************************************)
(* The main loop body for one utterance (lines 502-582).                   *)
(***************************************************************************)

\* lines 506-530: frame slot values, no blocklist test, no duplicate test
FrameValues(r) ==
    EntitiesOf(FrameCategory("frame_name"), r["frame_name"])
        \o EntitiesOf(FrameCategory("frame_dst_city"), r["frame_dst_city"])

\* lines 533-536: any exception of the extraction leaves extracted = []
TryExtract(r, spacy, f) ==
    IF ExtractRaises(spacy, f) THEN <<>> ELSE extract_entities_from_text(r, spacy, f)

\* lines 537-548 and 552-554: append what is neither blocklisted nor a duplicate
AppendNew(utter, found, blockTest) ==
    LET F[i \in 0..Len(found)] ==
            IF i = 0 THEN utter
            ELSE IF \/ blockTest /\ Lower(found[i].category) \in BLOCKLIST_LOWER
                    \/ IsDup(F[i - 1], found[i])
                 THEN F[i - 1]
                 ELSE Append(F[i - 1], found[i])
    IN  F[Len(found)]

\* gazetteer_match (lines 335-347)
gazetteer_match(r) == EntitiesOf("Location", r["gaz"])

\* lines 563-566: MONEY entities of the statistical model
MoneyPass(utter, spans) ==
    LET F[i \in 0..Len(spans)] ==
            IF i = 0 THEN utter
            ELSE IF EndpointInEntity(F[i - 1], spans[i][1], spans[i][2])
                 THEN F[i - 1]
                 ELSE Append(F[i - 1], Entity("Budget", spans[i]))
    IN  F[Len(spans)]

\* lines 559-580: nlp(text) raising is caught by the except of line 579
SpacyBudget(utter, r, spacy, f) ==
    IF ~spacy \/ f = "spacy" THEN utter
    ELSE DepBudgetPass(MoneyPass(utter, r["ent_MONEY"]), find_date_spans(r, f), r["dep"])

\* the candidate list handed to dedupe_entities at line 583
MergerInput(r, spacy, f) ==
    LET framed    == FrameValues(r)
        withText  == AppendNew(framed, TryExtract(r, spacy, f), TRUE)
        withGaz   == AppendNew(withText, gazetteer_match(r), FALSE)
        withModel == SpacyBudget(withGaz, r, spacy, f)
    IN  withModel \o gazetteer_match(r)

Frames ==
    /\ pc = "frames"
    /\ utter_entities' = FrameValues(raw)
    /\ pc' = "extract"
    /\ UNCHANGED <<deduped, final_entities, text_len, extractvars, budgetvars, httpvars,
                   datevars, adaptervars, botvars>>

TextExtraction ==
    /\ pc = "extract"
    /\ extracted' = TryExtract(raw, use_spacy, fails)
    /\ utter_entities' = AppendNew(utter_entities, extracted', TRUE)
    /\ pc' = "gazetteer"
    /\ UNCHANGED <<deduped, final_entities, text_len, raw, use_spacy, fails, budgetvars, httpvars,
                   datevars, adaptervars, botvars>>

Gazetteer ==
    /\ pc = "gazetteer"
    /\ utter_entities' = AppendNew(utter_entities, gazetteer_match(raw), FALSE)
    /\ pc' = "spacy"
    /\ UNCHANGED <<deduped, final_entities, text_len, extractvars, budgetvars, httpvars,
                   datevars, adaptervars, botvars>>

SpacyHeuristics ==
    /\ pc = "spacy"
    /\ utter_entities' = SpacyBudget(utter_entities, raw, use_spacy, fails)
    /\ pc' = "extend"
    /\ UNCHANGED <<deduped, final_entities, text_len, extractvars, budgetvars, httpvars,
                   datevars, adaptervars, botvars>>

ExtendGazetteer ==
    /\ pc = "extend"
    /\ utter_entities' = utter_entities \o gazetteer_match(raw)
    /\ pc' = "dedupe"
    /\ UNCHANGED <<deduped, final_entities, text_len, extractvars, budgetvars, httpvars,
                   datevars, adaptervars, botvars>>

\* an idle call record of the budget heuristic
NoCall == [text |-> <<>>, start |-> 0, end |-> 0, date_spans |-> <<>>]

\* the budget variables where the heuristic is not what runs
NoBudget == budget_call = NoCall /\ budget_result = FALSE

\* None where the handler holds a JSON value
NoneValue == [kind |-> "None", fields |-> <<>>]

\* an Activity with no attribute set
NoActivity ==
    [type |-> None, id |-> None, text |-> None, service_url |-> None, channel_id |-> None]

\* the request, environment and response variables before any request
NoRequest == [method |-> None]

NoEnv == [BOT_AVAILABLE |-> FALSE]

NoResponse == [status |-> 0, text |-> None]

\* the variables of the handler where no request is handled
NoHttp ==
    /\ request = NoRequest
    /\ env = NoEnv
    /\ body = NoneValue
    /\ raw_text = None
    /\ activity = NoActivity
    /\ adapter_calls = <<>>
    /\ bot_calls = <<>>
    /\ response = NoResponse

\* the variables of find_date_spans where it is not called
NoDates == date_call = <<>> /\ date_found = <<>>

\* the variables of the adapter module where no activity is processed
NoAdapter == frames = <<>> /\ original_calls = 0

\* the variables of the bot where no message is handled
NoBot == conversations = <<>> /\ heap = <<>> /\ handlers = <<>>

NoServices == NoDates /\ NoAdapter /\ NoBot

(***************************************************************************)
(* Inputs of the merger: well-formed spans (start <= end, inside the text).*)
(* The text-based extractors emit Date, Budget and the pattern categories  *)
(* (DepartureDate has no rank in the priority table); a frame slot emits   *)
(* its lower-cased slot name as the category (line 522), "name" here.      *)
(***************************************************************************)
ExtractorCategories == {"Date", "Budget", "DepartureDate"}

FrameCategories == {"name"}

Spans == {se \in (0..MaxPos) \X (0..MaxPos) : se[1] <= se[2]}

CandidatesOf(categories) ==
    {[category |-> c, offset |-> se[1], endPos |-> se[2], text |-> "t"] :
        c \in categories, se \in Spans}

(***************************************************************************)
(* The end of the main loop body (lines 583-590).                          *)
(***************************************************************************)
Dedupe ==
    /\ pc = "dedupe"
    /\ deduped' = dedupe_entities(utter_entities)
    /\ pc' = "finalize"
    /\ UNCHANGED <<utter_entities, final_entities, text_len, extractvars, budgetvars, httpvars,
                   datevars, adaptervars, botvars>>

Finalize ==
    /\ pc = "finalize"
    /\ final_entities' = to_final_entities(deduped)
    /\ pc' = "emitted"
    /\ UNCHANGED <<utter_entities, deduped, text_len, extractvars, budgetvars, httpvars,
                   datevars, adaptervars, botvars>>

\* the candidate list at line 583, drawn from the given categories
InitWith(categories) ==
    /\ pc = "dedupe"
    /\ \E n \in 0..MaxLen : utter_entities \in [1..n -> CandidatesOf(categories)]
    /\ deduped = <<>>
    /\ final_entities = <<>>
    /\ text_len = MaxPos + 1
    /\ NoExtraction
    /\ NoBudget
    /\ NoHttp
    /\ NoServices

\* candidates of the text-based extractors only
Init == InitWith(ExtractorCategories)

\* candidates of the text-based extractors and of the frame slots
InitFrames == InitWith(ExtractorCategories \cup FrameCategories)

Next == Dedupe \/ Finalize

Spec == Init /\ [][Next]_vars

SpecFrames == InitFrames /\ [][Next]_vars

\* candidates of one category of the priority table (Time, rank 4) and of the
\* two categories without an entry: a pattern rule's and a frame slot's
RankCategories == {"Time", "DepartureDate"} \cup FrameCategories

InitRanks == InitWith(RankCategories)

SpecRanks == InitRanks /\ [][Next]_vars

(***************************************************************************)
(* Inputs of the pipeline: at most MaxMatches matches over all sources,    *)
(* on the spans of a text of MaxPipePos + 1 characters.  The matches of    *)
(* one regular expression, and the entities of the statistical model, do   *)
(* not overlap each other.                                                 *)
(***************************************************************************)
PipeSpans == {se \in (0..MaxPipePos) \X (0..MaxPipePos) : se[1] <= se[2]}

SpansDisjoint(a, b) == a[2] < b[1] \/ b[2] < a[1]

RECURSIVE SpansInOrder(_)
SpansInOrder(S) ==
    IF S = {} THEN <<>>
    ELSE LET m == CHOOSE x \in S : \A y \in S : SpanBefore(x, y)
         IN  <<m>> \o SpansInOrder(S \ {m})

\* the matches of every source, from a list of <<source, span>> picks
RawOf(picks) ==
    [src \in Sources |->
        SpansInOrder({picks[i][2] : i \in {j \in DOMAIN picks : picks[j][1] = src}})]

WellFormedPicks(picks) ==
    \A i, j \in DOMAIN picks :
        (/\ i # j
         /\ picks[i][1] \notin FrameSources \cup {"parser", "gaz"}
         /\ \/ picks[i][1] = picks[j][1]
            \/ picks[i][1] \in EntSources /\ picks[j][1] \in EntSources)
            => SpansDisjoint(picks[i][2], picks[j][2])

Failures == {"none", "dateparser", "spacy"} \cup Range(RuleSources)

InitPipe ==
    /\ pc = "frames"
    /\ utter_entities = <<>>
    /\ deduped = <<>>
    /\ final_entities = <<>>
    /\ extracted = <<>>
    /\ NoBudget
    /\ NoHttp
    /\ NoServices
    /\ text_len = MaxPipePos + 1
    /\ use_spacy \in BOOLEAN
    /\ fails \in Failures
    /\ fails = "spacy" => use_spacy
    /\ \E n \in 0..MaxMatches :
          \E picks \in [1..n -> Sources \X PipeSpans] :
              /\ WellFormedPicks(picks)
              /\ use_spacy \/ \A i \in 1..n : picks[i][1] \notin SpacySources
              /\ raw = RawOf(picks)

NextPipe ==
    \/ Frames
    \/ TextExtraction
    \/ Gazetteer
    \/ SpacyHeuristics
    \/ ExtendGazetteer
    \/ Dedupe
    \/ Finalize

SpecPipe == InitPipe /\ [][NextPipe]_vars

(***************************************************************************)
(* to_final_entities as a function of any entity list: inputs with every   *)
(* letter case of a blocklisted category, spans that are inverted or lie   *)
(* outside the text, and dicts that lack a key.                            *)
(***************************************************************************)
FmtCategories == {"Date", "Person", "TICKET", "name"}

FmtOffsets == (0 - 1)..(MaxFmtPos + 1)

FmtEntities ==
    {[category |-> c, offset |-> s, endPos |-> e] :
        c \in FmtCategories, s \in FmtOffsets, e \in FmtOffsets}
    \cup {[entity |-> c, offset |-> 0, endPos |-> 0] : c \in FmtCategories}
    \cup {[category |-> "", entity |-> "Date", offset |-> 0, endPos |-> 0],
          [category |-> "", offset |-> 0, endPos |-> 0],
          [offset |-> 0, endPos |-> 0],
          [category |-> "Date", endPos |-> 0],
          [category |-> "Date", offset |-> 0]}

InitFmt ==
    /\ pc = "finalize"
    /\ utter_entities = <<>>
    /\ \E n \in 0..MaxFmtLen : deduped \in [1..n -> FmtEntities]
    /\ final_entities = <<>>
    /\ text_len = MaxFmtPos + 1
    /\ NoExtraction
    /\ NoBudget
    /\ NoHttp
    /\ NoServices

NextFmt == Finalize

SpecFmt == InitFmt /\ [][NextFmt]_vars

(***************************************************************************)
(* is_likely_budget_token (lines 39-82) on texts of characters.  A text is *)
(* a sequence of one-character strings ("<euro>" and "<pound>" name the    *)
(* two non-ASCII currency signs).                                          *)
(***************************************************************************)
Window == 30            \* line 48: the slice start-30 .. end+30
BeforeLen == 10         \* line 77: the slice start-10 .. start
YearLow == 1900         \* line 66
YearHigh == 2035        \* line 66
BudgetLow == 100        \* line 75
BudgetHigh == 1000000   \* line 75
YearDigits == 4         \* line 66: len(token) == 4

Min(a, b) == IF a < b THEN a ELSE b

Max(a, b) == IF a > b THEN a ELSE b

\* text[a:b] of Python for 0 <= a: the characters at offsets a .. b-1
Slice(text, a, b) == SubSeq(text, a + 1, Min(b, Len(text)))

UpperLetters ==
    <<"A", "B", "C", "D", "E", "F", "G", "H", "I", "J", "K", "L", "M",
      "N", "O", "P", "Q", "R", "S", "T", "U", "V", "W", "X", "Y", "Z">>

LowerLetters ==
    <<"a", "b", "c", "d", "e", "f", "g", "h", "i", "j", "k", "l", "m",
      "n", "o", "p", "q", "r", "s", "t", "u", "v", "w", "x", "y", "z">>

Digits == <<"0", "1", "2", "3", "4", "5", "6", "7", "8", "9">>

\* str.lower() on one character
LowerChar(c) ==
    IF \E i \in DOMAIN UpperLetters : UpperLetters[i] = c
    THEN LowerLetters[CHOOSE i \in DOMAIN UpperLetters : UpperLetters[i] = c]
    ELSE c

\* str.lower()
LowerText(text) == [i \in 1..Len(text) |-> LowerChar(text[i])]

IsDigit(c) == c \in Range(Digits)

\* \w of the regular expressions
IsWordChar(c) == c \in Range(UpperLetters) \cup Range(LowerLetters) \cup Range(Digits) \cup {"_"}

\* word occurs in text at sequence index i
OccursAt(text, word, i) ==
    /\ i + Len(word) - 1 <= Len(text)
    /\ \A k \in 1..Len(word) : text[i + k - 1] = word[k]

\* the `in` operator on strings
Contains(text, word) == \E i \in 1..(Len(text) + 1) : OccursAt(text, word, i)

\* \b before index i and after index j of text, for a match text[i..j] of word characters
BoundaryAround(text, i, j) ==
    /\ i = 1 \/ ~IsWordChar(text[i - 1])
    /\ j = Len(text) \/ ~IsWordChar(text[j + 1])

\* re.search(r'\b(?:w1|w2|...)\b', text, re.IGNORECASE) finds a match
SearchWords(words, text) ==
    LET low == LowerText(text)
    IN  \E w \in words : \E i \in 1..Len(text) :
            OccursAt(low, w, i) /\ BoundaryAround(text, i, i + Len(w) - 1)

\* CURRENCY_CUES (line 34)
CURRENCY_CUES ==
    {<<"$">>, <<"u", "s", "d">>, <<"d", "o", "l", "l", "a", "r", "s">>, <<"e", "u", "r">>,
     <<"<euro>">>, <<"<pound>">>, <<"b", "u", "d", "g", "e", "t">>,
     <<"p", "r", "i", "c", "e">>, <<"c", "o", "s", "t">>, <<"f", "a", "r", "e">>,
     <<"t", "i", "c", "k", "e", "t">>, <<"p", "a", "y">>}

\* line 54: the currency symbols tested right before the token
CurrencySymbols == {"$", "<euro>", "<pound>"}

\* the alternatives of MONTH_WORDS (line 6)
MonthWords ==
    {<<"j", "a", "n">>, <<"f", "e", "b">>, <<"m", "a", "r">>, <<"a", "p", "r">>,
     <<"m", "a", "y">>, <<"j", "u", "n">>, <<"j", "u", "l">>, <<"a", "u", "g">>,
     <<"s", "e", "p">>, <<"s", "e", "p", "t">>, <<"o", "c", "t">>, <<"n", "o", "v">>,
     <<"d", "e", "c">>, <<"j", "a", "n", "u", "a", "r", "y">>,
     <<"f", "e", "b", "r", "u", "a", "r", "y">>, <<"m", "a", "r", "c", "h">>,
     <<"a", "p", "r", "i", "l">>, <<"j", "u", "n", "e">>, <<"j", "u", "l", "y">>,
     <<"a", "u", "g", "u", "s", "t">>, <<"s", "e", "p", "t", "e", "m", "b", "e", "r">>,
     <<"o", "c", "t", "o", "b", "e", "r">>, <<"n", "o", "v", "e", "m", "b", "e", "r">>,
     <<"d", "e", "c", "e", "m", "b", "e", "r">>}

\* re.search(MONTH_WORDS, text, flags=re.IGNORECASE)
SearchMonth(text) == SearchWords(MonthWords, text)

\* re.search(r'\b\d{1,2}\b', text): one or two digits between word boundaries
SearchShortNumber(text) ==
    \E i \in 1..Len(text) : \E n \in 1..2 :
        /\ i + n - 1 <= Len(text)
        /\ \A k \in i..(i + n - 1) : IsDigit(text[k])
        /\ BoundaryAround(text, i, i + n - 1)

\* re.search(r'\bon\b', text)
SearchOn(text) ==
    \E i \in 1..Len(text) :
        OccursAt(text, <<"o", "n">>, i) /\ BoundaryAround(text, i, i + 1)

\* re.sub(r'[^0-9]', '', token)
DigitsOf(token) == SelectSeq(token, IsDigit)

DigitValue(c) == (CHOOSE i \in DOMAIN Digits : Digits[i] = c) - 1

\* int() of a non-empty string of digits
IntOf(digits) ==
    LET F[i \in 0..Len(digits)] ==
            IF i = 0 THEN 0 ELSE 10 * F[i - 1] + DigitValue(digits[i])
    IN  F[Len(digits)]

\* line 48: the window, lower-cased
WindowOf(text, start, end) ==
    LowerText(Slice(text, Max(0, start - Window), Min(Len(text), end + Window)))

\* line 51
HasCurrencyCue(window) == \E cue \in CURRENCY_CUES : Contains(window, cue)

\* line 54
SymbolBefore(text, start) == start > 0 /\ text[start] \in CurrencySymbols

\* line 66: a token of four characters whose digits give a plausible year
IsPlausibleYear(token) ==
    /\ Len(token) = YearDigits
    /\ YearLow <= IntOf(DigitsOf(token))
    /\ IntOf(DigitsOf(token)) <= YearHigh

\* the except branch of lines 59-62 answering True
NumericRules_EmptyAccepted(text, start, end) ==
    LET window == WindowOf(text, start, end)
        token  == Slice(text, start, end + 1)
        val    == IntOf(DigitsOf(token))
        before == LowerText(Slice(text, Max(0, start - BeforeLen), start))
    IN  IF DigitsOf(token) = <<>> THEN TRUE
        ELSE IF IsPlausibleYear(token) /\ SearchMonth(window) THEN FALSE
        ELSE IF /\ IsPlausibleYear(token)
                /\ SearchShortNumber(window)
                /\ SearchMonth(window)
             THEN FALSE
        ELSE IF val >= BudgetLow /\ val <= BudgetHigh
             THEN ~(SearchOn(before) /\ SearchMonth(text))
        ELSE FALSE

\* the value rule of lines 75-80 as the else-branch of the year test of line 66
NumericRules_YearElse(text, start, end) ==
    LET window == WindowOf(text, start, end)
        token  == Slice(text, start, end + 1)
        val    == IntOf(DigitsOf(token))
        before == LowerText(Slice(text, Max(0, start - BeforeLen), start))
    IN  IF DigitsOf(token) = <<>> THEN FALSE
        ELSE IF IsPlausibleYear(token) THEN FALSE
        ELSE IF val >= BudgetLow /\ val <= BudgetHigh
             THEN ~(SearchOn(before) /\ SearchMonth(text))
        ELSE FALSE

\* lines 64-82: the rules that follow the currency tests
NumericRules(text, start, end) ==
    LET window == WindowOf(text, start, end)
        token  == Slice(text, start, end + 1)
        val    == IntOf(DigitsOf(token))
        before == LowerText(Slice(text, Max(0, start - BeforeLen), start))
    IN  IF DigitsOf(token) = <<>> THEN FALSE
        ELSE IF IsPlausibleYear(token) /\ SearchMonth(window) THEN FALSE
        ELSE IF /\ IsPlausibleYear(token)
                /\ SearchShortNumber(window)
                /\ SearchMonth(window)
             THEN FALSE
        ELSE IF val >= BudgetLow /\ val <= BudgetHigh
             THEN ~(SearchOn(before) /\ SearchMonth(text))
        ELSE FALSE

\* the year rule of lines 66-72 consulted before the currency tests of lines 51-55
is_likely_budget_token_YearFirst(text, start, end, date_spans) ==
    IF is_token_overlapping_spans(start, end, date_spans) THEN FALSE
    ELSE IF /\ IsPlausibleYear(Slice(text, start, end + 1))
            /\ SearchMonth(WindowOf(text, start, end))
         THEN FALSE
    ELSE IF HasCurrencyCue(WindowOf(text, start, end)) THEN TRUE
    ELSE IF SymbolBefore(text, start) THEN TRUE
    ELSE NumericRules(text, start, end)

is_likely_budget_token(text, start, end, date_spans) ==
    IF is_token_overlapping_spans(start, end, date_spans) THEN FALSE
    ELSE IF HasCurrencyCue(WindowOf(text, start, end)) THEN TRUE
    ELSE IF SymbolBefore(text, start) THEN TRUE
    ELSE NumericRules(text, start, end)

(***************************************************************************)
(* Inputs of the budget heuristic: a token with one word before it and one *)
(* word after it, each separated from the token by a run of blanks, and a  *)
(* list of date spans.                                                     *)
(***************************************************************************)
Blanks(n) == [i \in 1..n |-> " "]

ContextWords ==
    {<<>>, <<"$">>, <<"<euro>">>, <<"p", "a", "y">>, <<"U", "S", "D">>,
     <<"A", "u", "g">>, <<"o", "n">>, <<"1", "5">>}

Tokens ==
    {<<"2", "0", "2", "4">>, <<"2", "0", "3", "6">>, <<"1", "9", "0", "0">>,
     <<"5", "0", "0">>, <<"5", "0">>, <<"a", "b", "c", "d">>,
     <<"1", "0", "0", "0", "0", "0", "1">>}

GapLengths == {0, 1, BeforeLen - 2, BeforeLen - 1, Window - 3, Window - 1, Window}

\* date spans around a token at start .. end: none, one that covers the token,
\* one that ends on its first character, one strictly inside it
DateSpanChoices(start, end) ==
    {<<>>, <<<<Max(0, start - 1), end + 1>>>>, <<<<Max(0, start - 1), start>>>>,
     <<<<start + 1, start + 1>>>>}

InitBudget ==
    /\ pc = "budget"
    /\ utter_entities = <<>>
    /\ deduped = <<>>
    /\ final_entities = <<>>
    /\ text_len = 0
    /\ NoExtraction
    /\ NoHttp
    /\ NoServices
    /\ budget_result = FALSE
    /\ \E left \in ContextWords, right \in ContextWords, token \in Tokens :
          \E gapL \in GapLengths, gapR \in GapLengths :
              LET start == Len(left) + gapL
                  end   == start + Len(token) - 1
              IN  \E spans \in DateSpanChoices(start, end) :
                      budget_call =
                          [text |-> left \o Blanks(gapL) \o token \o Blanks(gapR) \o right,
                           start |-> start, end |-> end, date_spans |-> spans]

\* one call of is_likely_budget_token (line 257)
Decide ==
    /\ pc = "budget"
    /\ budget_result' = is_likely_budget_token(budget_call.text, budget_call.start,
                                               budget_call.end, budget_call.date_spans)
    /\ pc' = "decided"
    /\ UNCHANGED <<utter_entities, deduped, final_entities, text_len, extractvars,
                   budget_call, httpvars,
                   datevars, adaptervars, botvars>>

NextBudget == Decide

SpecBudget == InitBudget /\ [][NextBudget]_vars

(***************************************************************************)
(* The HTTP host of the bot: handle_messages of mytravel/app.py (lines     *)
(* 170-259), the handler of GET, POST and OPTIONS on /api/messages (lines  *)
(* 373-376).  Strings of the handler are strings; the request's content    *)
(* type is a sequence of characters, as the texts of the budget heuristic. *)
(***************************************************************************)
TruncDeserialize == 100   \* line 229: str(e)[:100]
TruncBotError == 150      \* line 259: str(inner)[:150]
TraceTail == 800          \* line 187: _IMPORT_ERROR[-800:]
StatusOK == 200           \* aiohttp's default status and status=200 of the handler

\* s[:n]
Prefix(s, n) == IF Len(s) <= n THEN s ELSE SubSeq(s, 1, n)

\* s[-n:]
Suffix(s, n) == IF Len(s) <= n THEN s ELSE SubSeq(s, Len(s) - n + 1, Len(s))

RECURSIVE Strip(_)
\* str.strip() on the blanks of the model
Strip(s) ==
    IF Len(s) = 0 THEN s
    ELSE IF SubSeq(s, 1, 1) = " " THEN Strip(SubSeq(s, 2, Len(s)))
    ELSE IF SubSeq(s, Len(s), Len(s)) = " " THEN Strip(SubSeq(s, 1, Len(s) - 1))
    ELSE s

RECURSIVE Join(_, _)
\* sep.join(list)
Join(sep, list) ==
    IF Len(list) = 0 THEN ""
    ELSE IF Len(list) = 1 THEN list[1]
    ELSE list[1] \o sep \o Join(sep, Tail(list))

\* aiohttp: web.Response(status=200, text=None)
Response(status, text) == [status |-> status, text |-> text]

JsonType ==
    <<"a", "p", "p", "l", "i", "c", "a", "t", "i", "o", "n", "/", "j", "s",
      "o", "n">>

\* line 197: (request.content_type or "").lower().startswith("application/json")
IsJsonContentType(content_type) ==
    /\ content_type # None
    /\ OccursAt(LowerText(content_type), JsonType, 1)

ContentTypes ==
    {JsonType,
    <<"A", "p", "p", "l", "i", "c", "a", "t", "i", "o", "n", "/", "J", "S",
      "O", "N", ";", " ", "c", "h", "a", "r", "s", "e", "t", "=", "u", "t",
      "f", "-", "8">>,
    <<"t", "e", "x", "t", "/", "p", "l", "a", "i", "n">>}

Methods == {"GET", "POST", "OPTIONS"}

Localhost == "http://localhost:3978"

TunnelUrl == "https://purple-deer-1234.devtunnels.ms"

\* JSON values as request.json() returns them: a dict, a list, or None for null
Dict(fields) == [kind |-> "dict", fields |-> fields]

JsonList == [kind |-> "list", fields |-> <<>>]

\* isinstance(body, dict)
IsDict(value) == value.kind = "dict"

\* bool(v) of a str or None
Truthy(v) == v \notin {None, ""}

\* request bodies: whether request.json() parses them, the value it gives,
\* and the text request.text() gives
Payloads ==
    {[valid |-> TRUE, raw |-> "{...}",
      json |-> Dict([type |-> "message", text |-> "hello", serviceUrl |-> Localhost,
                     channelId |-> "directline"])],
     [valid |-> TRUE, raw |-> "{...}",
      json |-> Dict([type |-> "message", text |-> "hello", serviceUrl |-> TunnelUrl])],
     [valid |-> TRUE, raw |-> "{...}",
      json |-> Dict([type |-> "message", text |-> "hello"])],
     [valid |-> TRUE, raw |-> "{...}",
      json |-> Dict([type |-> "message", text |-> "hello", serviceUrl |-> Localhost,
                     timestamp |-> "not-a-date"])],
     [valid |-> TRUE, raw |-> "{...}", json |-> Dict([text |-> "hello"])],
     [valid |-> TRUE, raw |-> "{...}", json |-> Dict([type |-> "", text |-> "hello"])],
     [valid |-> TRUE, raw |-> "[...]", json |-> JsonList],
     [valid |-> TRUE, raw |-> "null", json |-> NoneValue],
     [valid |-> FALSE, raw |-> " hello ", json |-> NoneValue],
     [valid |-> FALSE, raw |-> "  ", json |-> NoneValue]}

\* what the bot hands to send_activity: a str, or an Activity with or without text
BotSends ==
    {[kind |-> "str", text |-> "Where are you departing from?"],
     [kind |-> "activity", text |-> "I heard: 'hello'."],
     [kind |-> "activity", text |-> None]}

LongError ==
    LET ten == "0123456789"
        fifty == ten \o ten \o ten \o ten \o ten
    IN  fifty \o fifty \o fifty \o ten

\* exceptions of the collaborators; None where the call returns
AdapterErrors == {None, "forced failure"}

BotErrors == {None, "boom", LongError}

\* lines 151-167: BOT_AVAILABLE is True when the imports and the constructors
\* succeeded, and _IMPORT_ERROR holds the trace otherwise
ImportOutcomes ==
    {[BOT_AVAILABLE |-> TRUE, IMPORT_ERROR |-> ""],
     [BOT_AVAILABLE |-> FALSE, IMPORT_ERROR |-> "ImportError: cannot import name 'TravelBot'"]}

\* lines 213-222: the activity built for a body that is no dict or has no type
DefaultBody(msg_text) ==
    Dict([type |-> "message", id |-> "auto-generated", serviceUrl |-> Localhost,
          channelId |-> "directline", text |-> msg_text])

\* Activity().deserialize(body) raises (a timestamp that is no date)
DeserializeRaises(dict) ==
    "timestamp" \in DOMAIN dict.fields /\ dict.fields.timestamp = "not-a-date"

DeserializeError == "Cannot deserialize as Activity: invalid datetime"

\* Activity().deserialize(body): the attributes of the activity from the keys of the dict
Deserialize(dict) ==
    [type |-> Get(dict.fields, "type"), id |-> Get(dict.fields, "id"),
     text |-> Get(dict.fields, "text"), service_url |-> Get(dict.fields, "serviceUrl"),
     channel_id |-> Get(dict.fields, "channelId")]

\* lines 247-251: SimpleTurnContext.send_activity, what lands in _responses
SentText(item) == item.text

\* "\n".join(ctx._responses) raises TypeError on a response that is None
JoinRaises(responses) == \E i \in DOMAIN responses : responses[i] = None

JoinError(responses) ==
    LET i == CHOOSE k \in DOMAIN responses :
                 responses[k] = None /\ \A j \in 1..(k - 1) : responses[j] # None
    IN  "sequence item " \o ToString(i - 1) \o ": expected str instance, NoneType found"


\* dict.get(k, default)
GetOr(d, k, default) == IF k \in DOMAIN d THEN d[k] ELSE default

GetText ==
    "This is the Bot endpoint. Send POST Bot Framework activities to /api/messages"

UsePostText == "Use POST with application/json to send a Bot Framework Activity."

\* lines 181-188: the guidance given while the bot is unavailable
UnavailableText(import_error) ==
    LET msg == <<"Bot unavailable (imports failed or not initialized).",
                 "Install requirements: python -m pip install -r mytravel/requirements.txt",
                 "Check /diagnostics for details.">>
    IN  Join("\n", IF import_error # ""
                   THEN Append(msg, "Startup trace (tail):\n" \o Suffix(import_error, TraceTail))
                   ELSE msg)

\* the handler returns
Respond(resp) == response' = resp /\ pc' = "responded"

StatusUnavailable == 503   \* line 12: the status the module docstring announces

\* the unavailable bot answered with 503, as the module docstring says
Dispatch_Unavailable503 ==
    /\ pc = "request"
    /\ IF request.method = "GET" THEN Respond(Response(StatusOK, GetText))
       ELSE IF request.method = "OPTIONS" THEN Respond(Response(StatusOK, None))
       ELSE IF request.method # "POST" THEN Respond(Response(StatusOK, UsePostText))
       ELSE IF ~env.BOT_AVAILABLE
            THEN Respond(Response(StatusUnavailable, UnavailableText(env.IMPORT_ERROR)))
       ELSE pc' = "parse" /\ UNCHANGED response
    /\ UNCHANGED <<request, env, body, raw_text, activity, adapter_calls, bot_calls>>
    /\ UNCHANGED <<utter_entities, deduped, final_entities, text_len, extractvars, budgetvars,
                   datevars, adaptervars, botvars>>

\* lines 172-188: the method and the availability of the bot
Dispatch ==
    /\ pc = "request"
    /\ IF request.method = "GET" THEN Respond(Response(StatusOK, GetText))
       ELSE IF request.method = "OPTIONS" THEN Respond(Response(StatusOK, None))
       ELSE IF request.method # "POST" THEN Respond(Response(StatusOK, UsePostText))
       ELSE IF ~env.BOT_AVAILABLE
            THEN Respond(Response(StatusOK, UnavailableText(env.IMPORT_ERROR)))
       ELSE pc' = "parse" /\ UNCHANGED response
    /\ UNCHANGED <<request, env, body, raw_text, activity, adapter_calls, bot_calls>>
    /\ UNCHANGED <<utter_entities, deduped, final_entities, text_len, extractvars, budgetvars,
                   datevars, adaptervars, botvars>>

\* lines 192-208: the body as JSON when the content type says so, as text otherwise
ParseBody ==
    /\ pc = "parse"
    /\ LET parsed == IF IsJsonContentType(request.content_type) /\ request.payload.valid
                     THEN request.payload.json
                     ELSE NoneValue
       IN  /\ body' = parsed
           /\ raw_text' = IF parsed = NoneValue
                          THEN (IF request.text_fails THEN "" ELSE request.payload.raw)
                          ELSE None
    /\ pc' = "activity"
    /\ UNCHANGED <<request, env, activity, adapter_calls, bot_calls, response>>
    /\ UNCHANGED <<utter_entities, deduped, final_entities, text_len, extractvars, budgetvars,
                   datevars, adaptervars, botvars>>

\* line 212: (raw_text or "").strip() or "(empty)"
MsgText(text) ==
    LET stripped == Strip(IF Truthy(text) THEN text ELSE "")
    IN  IF stripped = "" THEN "(empty)" ELSE stripped

\* lines 211-229: a valid Activity dict, then the Activity
BuildActivity ==
    /\ pc = "activity"
    /\ LET valid == IF ~IsDict(body) \/ ~Truthy(Get(body.fields, "type"))
                   THEN DefaultBody(MsgText(raw_text))
                   ELSE body
       IN  /\ body' = valid
           /\ IF DeserializeRaises(valid)
              THEN /\ Respond(Response(StatusOK, "Could not parse activity: "
                                  \o Prefix(DeserializeError, TruncDeserialize)))
                   /\ UNCHANGED activity
              ELSE /\ activity' = Deserialize(valid)
                   /\ pc' = "adapter"
                   /\ UNCHANGED response
    /\ UNCHANGED <<request, env, raw_text, adapter_calls, bot_calls>>
    /\ UNCHANGED <<utter_entities, deduped, final_entities, text_len, extractvars, budgetvars,
                   datevars, adaptervars, botvars>>

\* lines 235-240: the adapter processes the activity, or raises
ProcessActivity ==
    /\ pc = "adapter"
    /\ adapter_calls' =
           Append(adapter_calls,
                  [activity |-> activity,
                   auth_header |-> GetOr(request.headers, "Authorization", "")])
    /\ IF env.adapter_error = None
       THEN Respond(Response(StatusOK, None))
       ELSE pc' = "fallback" /\ UNCHANGED response
    /\ UNCHANGED <<request, env, body, raw_text, activity, bot_calls>>
    /\ UNCHANGED <<utter_entities, deduped, final_entities, text_len, extractvars, budgetvars,
                   datevars, adaptervars, botvars>>

\* ctx._responses after bot.on_message_activity(ctx)
Responses(sends) == [i \in 1..Len(sends) |-> SentText(sends[i])]

\* the direct handler without the "OK" of line 255 for a bot that sent nothing
DirectHandler_NoDefaultReply ==
    /\ pc = "fallback"
    /\ bot_calls' = Append(bot_calls, activity)
    /\ LET responses == Responses(env.bot_sends)
       IN  IF env.bot_error # None
           THEN Respond(Response(StatusOK,
                                 "Bot error: " \o Prefix(env.bot_error, TruncBotError)))
           ELSE IF JoinRaises(responses)
           THEN Respond(Response(StatusOK,
                                 "Bot error: " \o Prefix(JoinError(responses), TruncBotError)))
           ELSE Respond(Response(StatusOK, Join("\n", responses)))
    /\ UNCHANGED <<request, env, body, raw_text, activity, adapter_calls>>
    /\ UNCHANGED <<utter_entities, deduped, final_entities, text_len, extractvars, budgetvars,
                   datevars, adaptervars, botvars>>

\* lines 241-259: the bot's message handler called directly
DirectHandler ==
    /\ pc = "fallback"
    /\ bot_calls' = Append(bot_calls, activity)
    /\ LET responses == Responses(env.bot_sends)
       IN  IF env.bot_error # None
           THEN Respond(Response(StatusOK,
                                 "Bot error: " \o Prefix(env.bot_error, TruncBotError)))
           ELSE IF JoinRaises(responses)
           THEN Respond(Response(StatusOK,
                                 "Bot error: " \o Prefix(JoinError(responses), TruncBotError)))
           ELSE Respond(Response(StatusOK,
                                 IF responses # <<>> THEN Join("\n", responses) ELSE "OK"))
    /\ UNCHANGED <<request, env, body, raw_text, activity, adapter_calls>>
    /\ UNCHANGED <<utter_entities, deduped, final_entities, text_len, extractvars, budgetvars,
                   datevars, adaptervars, botvars>>

MaxReplies == 2   \* most replies the bot sends in one turn

\* the headers of the request that the handler reads
Headers == {<<>>, [Authorization |-> "Bearer t"]}

InitHttp ==
    /\ pc = "request"
    /\ utter_entities = <<>>
    /\ deduped = <<>>
    /\ final_entities = <<>>
    /\ text_len = 0
    /\ NoExtraction
    /\ NoBudget
    /\ NoServices
    /\ request \in [method : Methods, content_type : ContentTypes, payload : Payloads,
                    text_fails : BOOLEAN, headers : Headers]
    /\ \E imports \in ImportOutcomes, tunnel \in {None, TunnelUrl},
          adapter_error \in AdapterErrors, bot_error \in BotErrors, n \in 0..MaxReplies :
          \E sends \in [1..n -> BotSends] :
              env = [BOT_AVAILABLE |-> imports.BOT_AVAILABLE,
                     IMPORT_ERROR |-> imports.IMPORT_ERROR,
                     DEV_TUNNEL_URL |-> tunnel,
                     adapter_error |-> adapter_error,
                     bot_sends |-> sends,
                     bot_error |-> bot_error]
    /\ body = NoneValue
    /\ raw_text = None
    /\ activity = NoActivity
    /\ adapter_calls = <<>>
    /\ bot_calls = <<>>
    /\ response = NoResponse

NextHttp == Dispatch \/ ParseBody \/ BuildActivity \/ ProcessActivity \/ DirectHandler

SpecHttp == InitHttp /\ [][NextHttp]_vars

(***************************************************************************)
(* The date and pattern passes of extract_entities_from_text (lines        *)
(* 236-250) on their own, on a text of MaxPatPos + 1 characters.  The      *)
(* fallback scan of find_date_spans (line 29) and the first rule (line     *)
(* 200) are the same regular expression and have the same matches.         *)
(***************************************************************************)
MaxPatPos == 2       \* largest character offset of a match of the pattern pass
MaxPatMatches == 2   \* most matches in the text of the pattern pass

PatSpans == {se \in (0..MaxPatPos) \X (0..MaxPatPos) : se[1] <= se[2]}

PatSources == {"parser"} \cup Range(RuleSources)

\* the rule that raises re.error, the parser that raises, or none
PatFailures == {"none", "dateparser"} \cup Range(RuleSources)

\* the matches of the picks, the fallback scan finding what the first rule finds
PatRawOf(picks) ==
    LET r == RawOf(picks)
    IN  [r EXCEPT !["iso"] = r["rule1"]]

InitPattern ==
    /\ pc = "pattern"
    /\ utter_entities = <<>>
    /\ deduped = <<>>
    /\ final_entities = <<>>
    /\ extracted = <<>>
    /\ NoBudget
    /\ NoHttp
    /\ NoServices
    /\ text_len = MaxPatPos + 1
    /\ use_spacy = FALSE
    /\ fails \in PatFailures
    /\ \E n \in 0..MaxPatMatches :
          \E picks \in [1..n -> PatSources \X PatSpans] :
              /\ WellFormedPicks(picks)
              /\ raw = PatRawOf(picks)

\* lines 236-250: the Date entities of the date spans, then the pattern pass
PatternStep ==
    /\ pc = "pattern"
    /\ LET date_spans == find_date_spans(raw, fails)
       IN  extracted' = PatternPass(EntitiesOf("Date", date_spans), date_spans, raw, fails)
    /\ pc' = "patterned"
    /\ UNCHANGED <<utter_entities, deduped, final_entities, text_len, raw, use_spacy, fails,
                   budgetvars, httpvars,
                   datevars, adaptervars, botvars>>

NextPattern == PatternStep

SpecPattern == InitPattern /\ [][NextPattern]_vars

(***************************************************************************)
(* find_date_spans (lines 10-31) on texts of characters.  What             *)
(* dateparser.search.search_dates does with the text is an input: it       *)
(* raises, returns None, or returns a list of (matched text, datetime)     *)
(* pairs; the matched texts are what the parser reports, in any letter     *)
(* case, and need not occur in the text.                                   *)
(***************************************************************************)
MaxDateMatches == 2   \* most pairs in the result of search_dates

\* the smallest element of a non-empty set of integers
Least(S) == CHOOSE x \in S : \A y \in S : x <= y

\* line 25: re.search(re.escape(match_text), text, flags=re.IGNORECASE): the
\* sequence indices at which match_text occurs, letters compared without case
OccurrencesIgnoreCase(text, match_text) ==
    {i \in 1..Len(text) : OccursAt(LowerText(text), LowerText(match_text), i)}

\* the search of line 25 comparing the letters with their case
PrimarySpan_CaseSensitive(text, match_text) ==
    LET at == {i \in 1..Len(text) : OccursAt(text, match_text, i)}
    IN  IF at = {} THEN <<>>
        ELSE <<<<Least(at) - 1, Least(at) + Len(match_text) - 2, match_text, "dt">>>>

\* lines 25-27: the span of one pair of the parser, or nothing when the
\* matched text is not found; m.start() is the offset of the first occurrence
\* and m.end() - 1 the offset of its last character
PrimarySpan(text, match_text) ==
    LET at == OccurrencesIgnoreCase(text, match_text)
    IN  IF at = {} THEN <<>>
        ELSE <<<<Least(at) - 1, Least(at) + Len(match_text) - 2, match_text, "dt">>>>

\* lines 17-27: the spans of the primary pass; res is None after an exception
PrimaryPass(text, res) ==
    IF res.raises \/ res.value = None \/ res.pairs = <<>> THEN <<>>
    ELSE LET F[i \in 0..Len(res.pairs)] ==
                 IF i = 0 THEN <<>> ELSE F[i - 1] \o PrimarySpan(text, res.pairs[i])
         IN  F[Len(res.pairs)]

\* [/-] of the regular expression of line 29
IsDateSeparator(c) == c \in {"/", "-"}

\* the regular expression of line 29 matches at sequence index i with a month
\* of m digits and a day of d digits: \b 2 0 \d \d [/-] \d{m} [/-] \d{d} \b
IsoMatchesAt(text, i, m, d) ==
    LET last == i + 5 + m + d
    IN  /\ last <= Len(text)
        /\ i = 1 \/ ~IsWordChar(text[i - 1])
        /\ text[i] = "2" /\ text[i + 1] = "0"
        /\ IsDigit(text[i + 2]) /\ IsDigit(text[i + 3])
        /\ IsDateSeparator(text[i + 4])
        /\ \A k \in (i + 5)..(i + 4 + m) : IsDigit(text[k])
        /\ IsDateSeparator(text[i + 5 + m])
        /\ \A k \in (i + 6 + m)..last : IsDigit(text[k])
        /\ last = Len(text) \/ ~IsWordChar(text[last + 1])

\* the index of the last character of the match at index i, 0 without a match;
\* the greedy \d{1,2} takes two digits where the rest still matches
IsoMatchEnd(text, i) ==
    IF \E m, d \in 1..2 : IsoMatchesAt(text, i, m, d)
    THEN LET md == CHOOSE md \in (1..2) \X (1..2) :
                       /\ IsoMatchesAt(text, i, md[1], md[2])
                       /\ \A o \in (1..2) \X (1..2) :
                              IsoMatchesAt(text, i, o[1], o[2])
                                  => (o[1] < md[1] \/ (o[1] = md[1] /\ o[2] <= md[2]))
         IN  i + 5 + md[1] + md[2]
    ELSE 0

\* lines 29-30: re.finditer scans from the left and goes on after each match
RECURSIVE FallbackScan(_, _)
FallbackScan(text, i) ==
    IF i > Len(text) THEN <<>>
    ELSE LET last == IsoMatchEnd(text, i)
         IN  IF last = 0 THEN FallbackScan(text, i + 1)
             ELSE <<<<i - 1, last - 1, SubSeq(text, i, last), None>>>>
                      \o FallbackScan(text, last + 1)

\* the fallback scan left out when the parser raised
find_date_spans_StopOnError(text, res) ==
    IF res.raises THEN <<>>
    ELSE PrimaryPass(text, res) \o FallbackScan(text, 1)

\* lines 10-31; named after the function, whose result on the spans that the
\* matchers report is find_date_spans above
find_date_spans_text(text, res) == PrimaryPass(text, res) \o FallbackScan(text, 1)

\* the pieces a text is put together from
DatePieces ==
    {<<>>,
     <<"A", "u", "g", " ", "5">>,
     <<"a", "u", "g", " ", "5">>,
     <<"2", "0", "2", "5", "-", "1", "-", "5">>,
     <<"2", "0", "2", "5", "/", "1", "2", "/", "3", "1">>,
     <<"2", "0", "2", "5", "-", "1", "-", "5", "5", "5">>,
     <<"x", "2", "0", "2", "5", "-", "1", "-", "5">>,
     <<"2", "1", "2", "5", "-", "1", "-", "5">>}

\* the texts the parser reports as matched
MatchedTexts ==
    {<<"A", "u", "g", " ", "5">>, <<"a", "u", "g", " ", "5">>,
     <<"5", " ", "A", "u", "g">>, <<"2", "0", "2", "5", "-", "1", "-", "5">>}

\* what search_dates does: raises, returns None, or returns a list of pairs
ParserResults ==
    {[raises |-> TRUE, value |-> None, pairs |-> <<>>],
     [raises |-> FALSE, value |-> None, pairs |-> <<>>]}
    \cup {[raises |-> FALSE, value |-> "list", pairs |-> p] :
              p \in UNION {[1..n -> MatchedTexts] : n \in 0..MaxDateMatches}}

InitDates ==
    /\ pc = "dates"
    /\ utter_entities = <<>>
    /\ deduped = <<>>
    /\ final_entities = <<>>
    /\ text_len = 0
    /\ NoExtraction
    /\ NoBudget
    /\ NoHttp
    /\ NoAdapter
    /\ NoBot
    /\ \E a \in DatePieces, b \in DatePieces, res \in ParserResults :
           date_call = [text |-> a \o <<" ">> \o b, res |-> res]
    /\ date_found = <<>>

\* one call of find_date_spans (line 236)
FindDateSpans ==
    /\ pc = "dates"
    /\ date_found' = find_date_spans_text(date_call.text, date_call.res)
    /\ pc' = "dated"
    /\ UNCHANGED <<utter_entities, deduped, final_entities, text_len, extractvars,
                   budgetvars, httpvars, date_call, adaptervars, botvars>>

NextDates == FindDateSpans

SpecDates == InitDates /\ [][NextDates]_vars

(***************************************************************************)
(* The call of extract_entities_from_text in the main loop (lines          *)
(* 533-548) without the statistical model: the date spans, the pattern     *)
(* rules and the numeric tokens that is_likely_budget_token accepts.       *)
(***************************************************************************)
MaxRulePos == 1       \* largest character offset of a match of this call
MaxRuleMatches == 2   \* most matches in the text of this call

RuleSpans == {se \in (0..MaxRulePos) \X (0..MaxRulePos) : se[1] <= se[2]}

RulePassSources == PatSources \cup {"num_budget"}

InitRules ==
    /\ pc = "extract"
    /\ utter_entities = <<>>
    /\ deduped = <<>>
    /\ final_entities = <<>>
    /\ extracted = <<>>
    /\ NoBudget
    /\ NoHttp
    /\ NoServices
    /\ text_len = MaxRulePos + 1
    /\ use_spacy = FALSE
    /\ fails \in PatFailures
    /\ \E n \in 0..MaxRuleMatches :
          \E picks \in [1..n -> RulePassSources \X RuleSpans] :
              /\ WellFormedPicks(picks)
              /\ raw = PatRawOf(picks)

NextRules == TextExtraction

SpecRules == InitRules /\ [][NextRules]_vars

(***************************************************************************)
(* mytravel/adapter.py after it has been loaded: line 42 has bound the     *)
(* attribute process_activity of the global adapter to                     *)
(* safe_process_activity (lines 23-37).  frames is the stack of calls: the *)
(* caller's frame first, then one frame per call that has not returned.    *)
(* A call at the interpreter's recursion limit raises RecursionError, an   *)
(* Exception, in the frame that makes it; logging.error needs frames of    *)
(* its own.                                                                *)
(***************************************************************************)
RecursionLimit == 4   \* most frames on the stack (sys.getrecursionlimit())
MaxLogFrames == 2     \* most frames that one call of logging.error needs

\* lines 17 and 42: what adapter.process_activity names when line 32 looks it
\* up: the instance attribute set at line 42 hides the method of the class
ProcessActivityAttr == "safe_process_activity"

\* the activities, Authorization headers and outcomes of the library's
\* BotFrameworkAdapter.process_activity that a caller may meet
AdapterActivities == {"message", "conversationUpdate", "typing", "invoke"}

AuthHeaders == {"", "Bearer t", "Bearer expired"}

OriginalOutcomes == {"returns", "raises"}

\* the value the library's method returns when it returns
InvokeResponse == "InvokeResponse"

CallerFrame(a, h, o, n) ==
    [fn |-> "caller", activity |-> a, auth_header |-> h, original |-> o,
     log_frames |-> n, status |-> "calling", value |-> None]

SafeFrame == [fn |-> "safe_process_activity", status |-> "calling", value |-> None]

Top == frames[Len(frames)]

Pop == SubSeq(frames, 1, Len(frames) - 1)

\* the stack with the status and value of its top frame replaced
WithTop(stack, status, value) ==
    [stack EXCEPT ![Len(stack)] = [@ EXCEPT !.status = status, !.value = value]]

\* what reaches the frame below when the top frame ends: a safe frame is at
\* `return await ...` inside its try (line 32), the caller takes what comes
Deliver(status, value) ==
    LET below == frames[Len(frames) - 1]
    IN  IF below.fn = "caller"
        THEN WithTop(Pop, IF status = "raised" THEN "raised" ELSE "returned", value)
        ELSE WithTop(Pop, IF status = "raised" THEN "except" ELSE "returning", value)

InitAdapter ==
    /\ pc = "process_activity"
    /\ utter_entities = <<>>
    /\ deduped = <<>>
    /\ final_entities = <<>>
    /\ text_len = 0
    /\ NoExtraction
    /\ NoBudget
    /\ NoHttp
    /\ NoDates
    /\ NoBot
    /\ \E a \in AdapterActivities, h \in AuthHeaders, o \in OriginalOutcomes,
          n \in 1..MaxLogFrames :
           frames = <<CallerFrame(a, h, o, n)>>
    /\ original_calls = 0

\* the caller's call, and line 32: adapter.process_activity(activity,
\* auth_header, handler) is looked up and called
CallProcessActivity ==
    /\ pc = "process_activity"
    /\ Top.status = "calling"
    /\ IF ProcessActivityAttr = "safe_process_activity"
       THEN /\ IF Len(frames) < RecursionLimit
               THEN frames' = Append(frames, SafeFrame)
               ELSE frames' = WithTop(frames, IF Top.fn = "caller" THEN "raised" ELSE "except",
                                      "RecursionError")
            /\ UNCHANGED original_calls
       ELSE /\ original_calls' = original_calls + 1
            /\ frames' = IF frames[1].original = "returns"
                         THEN WithTop(frames, "returning", InvokeResponse)
                         ELSE WithTop(frames, "except", "Exception")
    /\ UNCHANGED <<pc, utter_entities, deduped, final_entities, text_len, extractvars,
                   budgetvars, httpvars, datevars, botvars>>

\* lines 34-37: the handler logs and returns None; a RecursionError of
\* logging.error leaves the frame and reaches the try of the frame below
HandleException ==
    /\ pc = "process_activity"
    /\ Top.status = "except"
    /\ IF Len(frames) + frames[1].log_frames <= RecursionLimit
       THEN frames' = WithTop(frames, "returning", None)
       ELSE frames' = Deliver("raised", "RecursionError")
    /\ UNCHANGED <<pc, utter_entities, deduped, final_entities, text_len, extractvars,
                   budgetvars, httpvars, datevars, original_calls, botvars>>

\* the return of lines 32 and 37
ReturnValue ==
    /\ pc = "process_activity"
    /\ Top.status = "returning"
    /\ frames' = Deliver("returning", Top.value)
    /\ UNCHANGED <<pc, utter_entities, deduped, final_entities, text_len, extractvars,
                   budgetvars, httpvars, datevars, original_calls, botvars>>

\* the caller has its answer
Resume ==
    /\ pc = "process_activity"
    /\ Top.fn = "caller"
    /\ Top.status \in {"returned", "raised"}
    /\ pc' = "processed"
    /\ UNCHANGED <<utter_entities, deduped, final_entities, text_len, extractvars,
                   budgetvars, httpvars, datevars, adaptervars, botvars>>

NextAdapter == CallProcessActivity \/ HandleException \/ ReturnValue \/ Resume

SpecAdapter == InitAdapter /\ [][NextAdapter]_vars

(***************************************************************************)
(* MyBot of mytravel/bot.py: the conversation states and the handler of a  *)
(* message.  The handler is a coroutine; it gives the event loop the hand  *)
(* only at its awaits (the send_activity of lines 53, 58, 97, 106, 114 and *)
(* 119), so the code between two awaits is one step and handlers of other  *)
(* messages, of the same conversation too, run between the steps.  heap    *)
(* holds the state dicts by identity, conversations names the dict of each *)
(* conversation id, handlers is the bag of the handlers at an await.      *)
(***************************************************************************)
MaxPending == 2   \* most handlers at an await at the same time

ConvIds == {"c1"}

\* the values a slot holds: None, a str, an int, a list
PyNone == [type |-> "NoneType"]

PyStr(s) == [type |-> "str", str |-> s]

PyInt(n) == [type |-> "int", int |-> n]

PyList(items) == [type |-> "list", items |-> items]

\* the truth value Python gives to a value (`if v`, `not state.get(k)`)
IsTruthy(v) ==
    CASE v.type = "NoneType" -> FALSE
      [] v.type = "str"      -> v.str # ""
      [] v.type = "int"      -> v.int # 0
      [] v.type = "list"     -> v.items # <<>>

\* lines 72 and 85: the slots in the order the code names them
SlotNames == <<"from", "to", "depart", "return", "budget">>

\* lines 39-47: the dict that setdefault stores for a new conversation
NewState ==
    [from |-> PyNone, to |-> PyNone, depart |-> PyNone, return |-> PyNone,
     budget |-> PyNone, offers |-> PyNone, awaiting_confirmation |-> FALSE]

\* lines 52 and 57: the answers to the question of line 113
ConfirmWords == {"yes", "y", "confirm", "ok", "1", "book"}

DeclineWords == {"no", "n", "cancel", "2"}

\* line 119: the words the echo tells the user to say for a new search
RestartWords == {"search", "new"}

\* the texts of the messages, after the strip of line 35
Texts ==
    {"from Paris to Rome", "depart 2025-12-20", "return 2025-12-27", "00",
     "Yes", "no", "search", "new"}

\* line 51: text.lower(), for the texts of Texts
Normalized(text) ==
    CASE text = "Yes"                -> "yes"
      [] text = "from Paris to Rome" -> "from paris to rome"
      [] OTHER                       -> text

NoSlots ==
    [from |-> PyNone, to |-> PyNone, depart |-> PyNone, return |-> PyNone,
     budget |-> PyNone]

\* lines 121-157: what the regular expressions find in the texts of Texts:
\* line 131 `from X to Y` on the lower-cased text, line 137 the first run of
\* two to six digits that ends at a word boundary, as an int (the year of a
\* date is such a run, and int("00") is 0), lines 142 and 146 what follows
\* `depart` and `return`; line 152 finds no capitalised `X to Y` where line
\* 131 found none
_extract_slots(text) ==
    CASE text = "from Paris to Rome" ->
             [NoSlots EXCEPT !.from = PyStr("paris"), !.to = PyStr("rome")]
      [] text = "depart 2025-12-20" ->
             [NoSlots EXCEPT !.depart = PyStr("2025-12-20"), !.budget = PyInt(2025)]
      [] text = "return 2025-12-27" ->
             [NoSlots EXCEPT !.return = PyStr("2025-12-27"), !.budget = PyInt(2025)]
      [] text = "00" -> [NoSlots EXCEPT !.budget = PyInt(0)]
      [] OTHER       -> NoSlots

\* line 68: what query_luis gives: it raises, it returns a dict with an
\* "error" (the configuration is missing, the service refuses), or it returns
\* the entities it mapped to slots
LuisRaises == [outcome |-> "raises", entities |-> NoSlots]

LuisError == [outcome |-> "error", entities |-> NoSlots]

LuisEntities(e) == [outcome |-> "entities", entities |-> e]

LuisResults ==
    {LuisRaises, LuisError,
     LuisEntities([NoSlots EXCEPT !.to = PyStr("oslo")])}

\* every slot takes what entities.get(slot) gives, None too
MergeLuis_Unconditional(state, luis_result) ==
    [k \in DOMAIN state |->
        IF k \in Range(SlotNames) /\ luis_result.outcome = "entities"
        THEN luis_result.entities[k]
        ELSE state[k]]

\* lines 69-74: a recognised entity replaces what the slot held
MergeLuis(state, luis_result) ==
    [k \in DOMAIN state |->
        IF /\ k \in Range(SlotNames)
           /\ luis_result.outcome = "entities"
           /\ IsTruthy(luis_result.entities[k])
        THEN luis_result.entities[k]
        ELSE state[k]]

\* lines 80-83: a rule-based value fills a slot that holds nothing
MergeExtracted(state, found) ==
    [k \in DOMAIN state |->
        IF k \in Range(SlotNames) /\ IsTruthy(found[k]) /\ ~IsTruthy(state[k])
        THEN found[k]
        ELSE state[k]]

\* the slots that hold nothing, the last named first
Missing_LastFirst(state) ==
    LET unfilled == SelectSeq(SlotNames, LAMBDA k : ~IsTruthy(state[k]))
    IN  [i \in DOMAIN unfilled |-> unfilled[Len(unfilled) + 1 - i]]

\* line 85
Missing(state) == SelectSeq(SlotNames, LAMBDA k : ~IsTruthy(state[k]))

\* lines 159-183, with the int() of the products written as divisions
BasePrice(budget) == IF budget # 0 THEN Max(50, (budget * 6) \div 10) ELSE 200

OfferPrices(budget) ==
    <<(BasePrice(budget) * 9) \div 10, BasePrice(budget), (BasePrice(budget) * 12) \div 10>>

_recommend_flights(state) ==
    LET budget == IF IsTruthy(state.budget) THEN state.budget.int ELSE 0
        offers == [i \in 1..3 |->
                      [airline |-> i, price |-> OfferPrices(budget)[i],
                       depart_time |-> IF IsTruthy(state.depart) THEN state.depart
                                       ELSE PyStr("TBD"),
                       return_time |-> IF IsTruthy(state.return) THEN state.return
                                       ELSE PyStr("TBD")]]
    IN  IF budget # 0
        THEN SelectSeq(offers, LAMBDA o : o.price <= Max((budget * 3) \div 2, o.price))
        ELSE offers

\* the replies of lines 53, 58, 97, 106, 114 and 119
BookedReply == [reply |-> "booked"]

DeclinedReply == [reply |-> "declined"]

Question(next_slot) == [reply |-> "question", slot |-> next_slot]

SorryReply == [reply |-> "sorry"]

OffersReply(offers) == [reply |-> "offers", offers |-> offers]

EchoReply(text) == [reply |-> "echo", text |-> text]

\* a handler at the await of the reply it sent: its position, its conv_id,
\* its local state (the dict, by identity) and what it sent
Handler(at, c, ref, reply) ==
    [pc |-> at, conv |-> c, state |-> ref, sent |-> <<reply>>]

\* the handlers at an await, as a set
Pending == BagToSet(handlers)

\* the handlers when h returns
Return(h) ==
    LET rest == handlers (-) SetToBag({h})
    IN  IF BagToSet(rest) = {} THEN <<>> ELSE rest

\* dict.pop(conv_id, None)
Without(f, c) ==
    IF DOMAIN f \ {c} = {} THEN <<>> ELSE [k \in DOMAIN f \ {c} |-> f[k]]

\* a dict that neither self.conversations nor a handler at an await refers to
\* is freed, and the dicts end at the last one in use.  A dict that only
\* handlers refer to is never read again: setdefault stores a new dict, and
\* a handler writes after its await (lines 59 and 115) without reading.  The
\* model keeps the place of such a dict and forgets what it holds.
Freed == [type |-> "freed"]

Detached == [type |-> "detached"]

Collect(dicts, convs, hs) ==
    LET held == {h.state : h \in BagToSet(hs)}
        used == Range(convs) \cup held
        last == IF used = {} THEN 0 ELSE CHOOSE i \in used : \A j \in used : j <= i
    IN  [i \in 1..last |->
            IF i \in Range(convs) THEN dicts[i]
            ELSE IF i \in held THEN Detached ELSE Freed]

\* lines 59 and 115: state["awaiting_confirmation"] = value
SetAwaiting(dicts, ref, value) ==
    IF dicts[ref] = Detached
    THEN dicts
    ELSE [dicts EXCEPT ![ref].awaiting_confirmation = value]

\* a new dict takes the first free place
Alloc ==
    Least({i \in 1..(Len(heap) + 1) : i = Len(heap) + 1 \/ heap[i] = Freed})

\* line 39: setdefault stores a new dict only for a conversation without one
StateRef(c) == IF c \in DOMAIN conversations THEN conversations[c] ELSE Alloc

Stored(c) ==
    IF c \in DOMAIN conversations
    THEN heap
    ELSE [i \in 1..Max(Alloc, Len(heap)) |-> IF i = Alloc THEN NewState ELSE heap[i]]

StateOf(c) == Stored(c)[StateRef(c)]

\* a message of conversation c can be taken
CanAccept(c) ==
    /\ pc = "on_message_activity"
    /\ BagCardinality(handlers) < MaxPending

\* lines 50-60: the message answers the question of line 113
Answers(c, text, words) ==
    StateOf(c).awaiting_confirmation /\ Normalized(text) \in words

\* lines 62-83: the state after LUIS and the rules
Understood(c, text, luis_result) ==
    MergeExtracted(MergeLuis(StateOf(c), luis_result), _extract_slots(text))

\* the step of a handler leaves the conversations, the dicts and the handlers
Commit(convs, dicts, hs) ==
    /\ conversations' = convs
    /\ heap' = Collect(dicts, convs, hs)
    /\ handlers' = hs
    /\ UNCHANGED <<pc, utter_entities, deduped, final_entities, text_len, extractvars,
                   budgetvars, httpvars, datevars, adaptervars>>

\* the handler h starts and reaches its first await with the dict as st
Accept(c, st, h) ==
    Commit((c :> StateRef(c)) @@ conversations,
           [Stored(c) EXCEPT ![StateRef(c)] = st],
           handlers (+) SetToBag({h}))

InitBot ==
    /\ pc = "on_message_activity"
    /\ utter_entities = <<>>
    /\ deduped = <<>>
    /\ final_entities = <<>>
    /\ text_len = 0
    /\ NoExtraction
    /\ NoBudget
    /\ NoHttp
    /\ NoDates
    /\ NoAdapter
    /\ conversations = <<>>
    /\ heap = <<>>
    /\ handlers = <<>>

\* lines 35-53: a confirmation arrives
ConfirmBooking ==
    \E c \in ConvIds, text \in Texts :
        /\ CanAccept(c)
        /\ Answers(c, text, ConfirmWords)
        /\ Accept(c, StateOf(c), Handler("booking", c, StateRef(c), BookedReply))

\* lines 35-58: a refusal arrives
DeclineBooking ==
    \E c \in ConvIds, text \in Texts :
        /\ CanAccept(c)
        /\ Answers(c, text, DeclineWords)
        /\ Accept(c, StateOf(c), Handler("declining", c, StateRef(c), DeclinedReply))

\* lines 35-97: a slot is missing after LUIS and the rules
AskSlot ==
    \E c \in ConvIds, text \in Texts, luis_result \in LuisResults :
        /\ CanAccept(c)
        /\ ~Answers(c, text, ConfirmWords \cup DeclineWords)
        /\ LET state == Understood(c, text, luis_result)
               missing == Missing(state)
           IN  /\ missing # <<>>
               /\ Accept(c, state, Handler("asking", c, StateRef(c), Question(missing[1])))

\* lines 35-114: every slot is known and the dict holds no offers
RecommendFlights ==
    \E c \in ConvIds, text \in Texts, luis_result \in LuisResults :
        /\ CanAccept(c)
        /\ ~Answers(c, text, ConfirmWords \cup DeclineWords)
        /\ LET state == Understood(c, text, luis_result)
               offers == _recommend_flights(state)
           IN  /\ Missing(state) = <<>>
               /\ ~IsTruthy(state.offers)
               /\ Accept(c, [state EXCEPT !.offers = PyList(offers)],
                         IF offers = <<>>
                         THEN Handler("apologising", c, StateRef(c), SorryReply)
                         ELSE Handler("presenting", c, StateRef(c), OffersReply(offers)))

\* lines 35-119: every slot is known and the dict holds offers
EchoFallback ==
    \E c \in ConvIds, text \in Texts, luis_result \in LuisResults :
        /\ CanAccept(c)
        /\ ~Answers(c, text, ConfirmWords \cup DeclineWords)
        /\ LET state == Understood(c, text, luis_result)
           IN  /\ Missing(state) = <<>>
               /\ IsTruthy(state.offers)
               /\ Accept(c, state, Handler("echoing", c, StateRef(c), EchoReply(text)))

\* lines 55-56: after the await of line 53
BookingSent ==
    \E h \in Pending :
        /\ pc = "on_message_activity"
        /\ h.pc = "booking"
        /\ Commit(Without(conversations, h.conv), heap, Return(h))

\* lines 59-60: after the await of line 58
DeclineSent ==
    \E h \in Pending :
        /\ pc = "on_message_activity"
        /\ h.pc = "declining"
        /\ Commit(conversations,
                  SetAwaiting(heap, h.state, FALSE),
                  Return(h))

\* lines 115-116: after the await of line 114
OffersSent ==
    \E h \in Pending :
        /\ pc = "on_message_activity"
        /\ h.pc = "presenting"
        /\ Commit(conversations,
                  SetAwaiting(heap, h.state, TRUE),
                  Return(h))

\* lines 98, 107 and 119: after the await the handler returns
ReplySent ==
    \E h \in Pending :
        /\ pc = "on_message_activity"
        /\ h.pc \in {"asking", "apologising", "echoing"}
        /\ Commit(conversations, heap, Return(h))

NextBot ==
    \/ ConfirmBooking
    \/ DeclineBooking
    \/ AskSlot
    \/ RecommendFlights
    \/ EchoFallback
    \/ BookingSent
    \/ DeclineSent
    \/ OffersSent
    \/ ReplySent

SpecBot == InitBot /\ [][NextBot]_vars

(***************************************************************************)
(* Properties of the merger and the formatter.                             *)
(***************************************************************************)
InputSet == Range(utter_entities)

OutputSet == Range(deduped)

\* closed-interval intersection of two candidates
Intersect(a, b) == a.offset <= b.endPos /\ b.offset <= a.endPos

SameSpan(a, b) == a.offset = b.offset /\ a.endPos = b.endPos

\* C1: no two final entities of dedupe_entities followed by to_final_entities
\* have intersecting ranges: for every two of them, A.offset + A.length <=
\* B.offset or B.offset + B.length <= A.offset (the inputs have start <= end).
C1_NonOverlap ==
    pc = "emitted" =>
        \A i, j \in DOMAIN final_entities :
            i # j =>
                LET A == final_entities[i]
                    B == final_entities[j]
                IN  \/ A.offset + A.length <= B.offset
                    \/ B.offset + B.length <= A.offset

C1_Witness ==
    /\ pc = "emitted"
    /\ Len(final_entities) = 2
    /\ \E a, b \in InputSet : a # b /\ Intersect(a, b)

\* C2 as stated: whenever the candidate list holds a Date D and a Budget B whose
\* closed intervals overlap, the merger output never holds B without holding D.
C2_DateOverBudget_Original ==
    pc # "dedupe" =>
        \A D, B \in InputSet :
            (D.category = "Date" /\ B.category = "Budget" /\ Intersect(D, B))
                => ~(B \in OutputSet /\ D \notin OutputSet)

\* C2 amended: if, in addition, no Date candidate with another span overlaps D,
\* then the merger output holds D and does not hold B, whatever the other
\* candidates and the input order.
C2_DateOverBudget ==
    pc # "dedupe" =>
        \A D, B \in InputSet :
            (/\ D.category = "Date" /\ B.category = "Budget" /\ Intersect(D, B)
             /\ \A X \in InputSet :
                    (X.category = "Date" /\ Intersect(X, D)) => SameSpan(X, D))
                => (D \in OutputSet /\ B \notin OutputSet)

C2_Witness ==
    /\ pc = "finalize"
    /\ Len(utter_entities) = 3
    /\ \E D, B, X \in InputSet :
          /\ D.category = "Date" /\ B.category = "Budget" /\ Intersect(D, B)
          /\ X.category = "Date" /\ ~Intersect(X, D)
          /\ B.offset < D.offset /\ B.endPos - B.offset > D.endPos - D.offset
          /\ D \in OutputSet /\ X \in OutputSet /\ B \notin OutputSet

\* C3: of two candidates of equal priority and equal start offset, the one
\* with the smaller end offset is never in the merger output.
C3_LengthTieBreak ==
    pc # "dedupe" =>
        \A a, b \in InputSet :
            (/\ priority(a.category) = priority(b.category)
             /\ a.offset = b.offset
             /\ a.endPos < b.endPos)
                => a \notin OutputSet

C3_Witness ==
    /\ pc = "finalize"
    /\ \E i, j \in DOMAIN utter_entities :
          /\ i < j
          /\ priority(utter_entities[i].category) = priority(utter_entities[j].category)
          /\ utter_entities[i].category # utter_entities[j].category
          /\ utter_entities[i].offset = utter_entities[j].offset
          /\ utter_entities[i].endPos < utter_entities[j].endPos
          /\ utter_entities[j] \in OutputSet

\* C4: running dedupe_entities on its own output returns that output unchanged:
\* the same spans and categories in the same list order.
C4_Idempotent == pc # "dedupe" => dedupe_entities(deduped) = deduped

C4_Witness ==
    /\ pc = "finalize"
    /\ Len(utter_entities) = 3
    /\ Len(deduped) = 2
    /\ deduped[1] = utter_entities[3]
    /\ \E a, b \in InputSet : a # b /\ Intersect(a, b)

\* the entity dict holds both ends of its span
HasSpan(ent) == "offset" \in DOMAIN ent /\ "endPos" \in DOMAIN ent

\* C5: no final entity of to_final_entities has a category whose lower-cased
\* form equals the lower-cased form of a blocklist entry, whatever the letter
\* case of the category and whatever list the formatter is given.
C5_Blocklist ==
    pc = "emitted" =>
        \A i \in DOMAIN final_entities :
            \A b \in BLOCKLIST : Lower(final_entities[i].category) # Lower(b)

C5_Witness ==
    /\ pc = "emitted"
    /\ Len(deduped) = 2
    /\ Get(deduped[1], "category") = "Person"
    /\ HasSpan(deduped[1]) /\ deduped[1].offset = 0 /\ deduped[1].endPos = 1
    /\ Get(deduped[2], "category") = "Date"
    /\ Len(final_entities) = 1

\* C6: every final entity has length >= 1 and comes from an input entity that
\* holds both ends of its span, with offset = start and length = end - start +
\* 1; no more entities are emitted than there are inputs with both ends and
\* end >= start.
C6_FinalShape ==
    pc = "emitted" =>
        /\ \A i \in DOMAIN final_entities :
              /\ final_entities[i].length >= 1
              /\ \E j \in DOMAIN deduped :
                    /\ HasSpan(deduped[j])
                    /\ final_entities[i].category = CategoryOf(deduped[j])
                    /\ final_entities[i].offset = deduped[j].offset
                    /\ final_entities[i].length = deduped[j].endPos - deduped[j].offset + 1
        /\ Len(final_entities) <=
              Cardinality({j \in DOMAIN deduped :
                              HasSpan(deduped[j]) /\ deduped[j].endPos >= deduped[j].offset})

C6_Witness ==
    /\ pc = "emitted"
    /\ Len(deduped) = 2
    /\ HasSpan(deduped[1]) /\ deduped[1].endPos = deduped[1].offset - 1
    /\ Get(deduped[1], "category") = "Date"
    /\ HasSpan(deduped[2]) /\ deduped[2].endPos = deduped[2].offset + 1
    /\ final_entities = <<[category |-> "Date", offset |-> deduped[2].offset, length |-> 2]>>

\* C7 as stated: no final entity has offset < 0 or offset + length greater than
\* the length of the text, whatever list the formatter is given.
C7_InBounds ==
    pc = "emitted" =>
        \A i \in DOMAIN final_entities :
            /\ final_entities[i].offset >= 0
            /\ final_entities[i].offset + final_entities[i].length <= text_len

\* the (category, start, end) triples of an entity list
SpanSet(lst) == {<<lst[i].category, lst[i].offset, lst[i].endPos>> : i \in DOMAIN lst}

\* C9 as stated: the merger output never holds the same (category, start, end)
\* twice, and a further copy of a candidate of the list, put at any position
\* of the list, leaves the set of output spans unchanged.
C9_DuplicateInsensitive ==
    pc # "dedupe" =>
        /\ \A i, j \in DOMAIN deduped :
              i # j => DupKey(NormalizeItem(deduped[i])) # DupKey(NormalizeItem(deduped[j]))
        /\ \A i \in DOMAIN utter_entities :
              \A at \in 1..(Len(utter_entities) + 1) :
                  SpanSet(dedupe_entities(InsertAt(utter_entities, at, utter_entities[i])))
                      = SpanSet(deduped)

\* the matches of the utterance with those of the failing extractor left out
Silence(r, f) ==
    [src \in Sources |->
        IF \/ f = "dateparser" /\ src = "parser"
           \/ f = src
           \/ f = "spacy" /\ src \in SpacySources
        THEN <<>>
        ELSE r[src]]

\* C8 as stated: when one extractor fails on an utterance (the date parser, one
\* pattern rule or the statistical model), the candidates that reach the
\* merger are those of a run in which that extractor found nothing: the
\* failing extractor contributes none and every candidate of the others
\* arrives.  (No raise leaves the loop body, so the utterance is emitted.)
C8_FailureIsolated ==
    (pc = "dedupe" /\ fails # "none") =>
        Range(utter_entities) = Range(MergerInput(Silence(raw, fails), use_spacy, "none"))


(***************************************************************************)
(* Properties of the budget heuristic                                      *)
(***************************************************************************)
CallToken == Slice(budget_call.text, budget_call.start, budget_call.end + 1)

CallWindow == WindowOf(budget_call.text, budget_call.start, budget_call.end)

CallOverlapsDate ==
    is_token_overlapping_spans(budget_call.start, budget_call.end, budget_call.date_spans)

\* C10: the rules of is_likely_budget_token decide in their order: a token that
\* the test of line 46 finds on a date span is rejected whatever else holds,
\* and a token that it finds on no date span (so every token that overlaps no
\* date span) and that has a currency cue in its window is accepted as
\* Budget, also when it is a 4-digit value in [1900, 2035] with a month-name
\* word in the window (the year rule is not consulted for it).
C10_CueBeforeYearRule ==
    pc = "decided" =>
        /\ CallOverlapsDate => budget_result = FALSE
        /\ (~CallOverlapsDate /\ HasCurrencyCue(CallWindow)) => budget_result = TRUE

\* a decided call on a plausible year with a month word and a currency cue in
\* its window and no date span on it, accepted as Budget
C10_Witness ==
    /\ pc = "decided"
    /\ ~CallOverlapsDate
    /\ IsPlausibleYear(CallToken)
    /\ SearchMonth(CallWindow)
    /\ HasCurrencyCue(CallWindow)
    /\ budget_result = TRUE


\* int(re.sub(r'[^0-9]', '', token)) raises: the stripped string is empty
ConversionRaises(token) == DigitsOf(token) = <<>>

\* C11 as stated: every token without a digit is rejected, whatever the
\* surrounding text is.
C11_NonNumericRejected_Original ==
    (pc = "decided" /\ ConversionRaises(CallToken)) => budget_result = FALSE

\* C11: a token without a digit, for which the conversion of line 60 raises,
\* is rejected when no currency cue is in its window and no currency symbol
\* stands right before it; the currency tests of lines 51-55 come before the
\* conversion and accept it otherwise.
C11_NonNumericRejected ==
    (pc = "decided" /\ ConversionRaises(CallToken)) =>
        budget_result =
            (/\ ~CallOverlapsDate
             /\ \/ HasCurrencyCue(CallWindow)
                \/ SymbolBefore(budget_call.text, budget_call.start))

\* a decided call on a token without a digit that reached the conversion (no
\* date span on it, no currency cue around it) and was rejected
C11_Witness ==
    /\ pc = "decided"
    /\ ConversionRaises(CallToken)
    /\ ~CallOverlapsDate
    /\ ~HasCurrencyCue(CallWindow)
    /\ ~SymbolBefore(budget_call.text, budget_call.start)
    /\ SearchMonth(CallWindow)
    /\ budget_result = FALSE


StrContains(s, word) ==
    \E i \in 1..(Len(s) - Len(word) + 1) : SubSeq(s, i, i + Len(word) - 1) = word

\* the handler answered a POST whose adapter.process_activity raised
AdapterRaised ==
    pc = "responded" /\ Len(adapter_calls) = 1 /\ env.adapter_error # None

\* the texts the bot sent, as the fallback collects them
ReplyTexts == [i \in 1..Len(env.bot_sends) |-> env.bot_sends[i].text]

\* the direct handler came back and every reply it sent carries a text
BotReplied == env.bot_error = None /\ \A i \in DOMAIN ReplyTexts : ReplyTexts[i] # None

\* the body the fallback owes the client: the replies joined by newlines, or OK
ReplyBody == IF Len(ReplyTexts) = 0 THEN "OK" ELSE Join("\n", ReplyTexts)

\* C13 as stated: whenever the adapter raises, the bot's message handler is
\* called with the same activity and the answer is 200 with the replies
\* joined by newlines, or OK without replies.
C13_Fallback_Original ==
    AdapterRaised =>
        /\ bot_calls = <<adapter_calls[1].activity>>
        /\ response.status = 200
        /\ response.text = ReplyBody

\* C13: whenever adapter.process_activity raises, the bot's on_message_activity
\* is called once with the same activity and the answer has status 200; its
\* body is the bot's replies joined by newlines, or OK without replies, when
\* the direct handler returns and every reply carries a text, and a text that
\* starts with "Bot error: " otherwise; the adapter's exception is in no body.
C13_Fallback ==
    AdapterRaised =>
        /\ bot_calls = <<adapter_calls[1].activity>>
        /\ response.status = 200
        /\ BotReplied => response.text = ReplyBody
        /\ ~BotReplied => SubSeq(response.text, 1, 11) = "Bot error: "
        /\ ~StrContains(response.text, env.adapter_error)

\* the adapter raised, the bot was called directly with the same activity and
\* sent two replies with a text: the body is the two texts joined by a newline
C13_Witness ==
    /\ AdapterRaised
    /\ BotReplied
    /\ Len(env.bot_sends) = 2
    /\ bot_calls = <<activity>>
    /\ response.text = ReplyTexts[1] \o "\n" \o ReplyTexts[2]


\* the os.environ of the request has DEV_TUNNEL_URL set
TunnelSet == env.DEV_TUNNEL_URL # None

\* C14: when DEV_TUNNEL_URL is set, the Activity handed to
\* adapter.process_activity has service_url equal to DEV_TUNNEL_URL, whatever
\* serviceUrl the request payload carries.
C14_ServiceUrlOverride ==
    (TunnelSet /\ Len(adapter_calls) > 0) =>
        \A i \in DOMAIN adapter_calls :
            adapter_calls[i].activity.service_url = env.DEV_TUNNEL_URL


(***************************************************************************)
(* Properties of the sweep of the merger                                   *)
(***************************************************************************)
\* the accepted spans that the n-th candidate of the sorted list overlaps when
\* its turn comes
SweepHits(uniq, n) ==
    LET result == SweepPrefix(uniq, n - 1)
    IN  {k \in 1..Len(result) : Overlapping(uniq[n], result[k])}

\* C15: at every step of the sweep, the candidate being processed overlaps at
\* most one span of the accepted list (the input spans have start <= end), so
\* the first overlapping accepted span is the only one and no second conflict
\* is left unexamined.
C15_SingleConflict ==
    pc = "finalize" =>
        LET uniq == SortedUniq(utter_entities)
        IN  \A n \in 1..Len(uniq) :
                LET hits == SweepHits(uniq, n)
                IN  \A a, b \in hits : a = b

\* a sweep step whose candidate meets an accepted list of two spans and
\* overlaps exactly one of them
C15_Witness ==
    /\ pc = "finalize"
    /\ LET uniq == SortedUniq(utter_entities)
       IN  \E n \in 1..Len(uniq) :
               /\ Len(SweepPrefix(uniq, n - 1)) >= 2
               /\ Cardinality(SweepHits(uniq, n)) = 1

\* the rearrangements of a list: the list read through a permutation of its indices
PermutationsOf(lst) ==
    {[i \in 1..Len(lst) |-> lst[f[i]]] :
        f \in {g \in [1..Len(lst) -> 1..Len(lst)] : \A a, b \in 1..Len(lst) : a # b => g[a] # g[b]}}

\* C16: the input of the merger is an unordered candidate list: for every
\* candidate list and every permutation of it, dedupe_entities returns the
\* same set of (category, start, end) spans, also when two candidates of
\* different categories without an entry in the priority table cover the
\* same span.
C16_OrderIndependent ==
    pc = "finalize" =>
        \A perm \in PermutationsOf(utter_entities) :
            SpanSet(dedupe_entities(perm)) = SpanSet(deduped)


\* the candidate is not among the spans of the merger output
Absent(c) == <<c.category, c.offset, c.endPos>> \notin SpanSet(deduped)

\* the spans that were in the accepted list at some step of the sweep
EverAccepted(entities) ==
    LET uniq == SortedUniq(entities)
    IN  UNION {Range(SweepPrefix(uniq, n)) : n \in 0..Len(uniq)}

\* the candidate overlaps a span of another candidate in the set rivals
HasRival(c, rivals) ==
    \E k \in rivals :
        /\ DupKey(k) # DupKey(NormalizeItem(c))
        /\ Overlapping(NormalizeItem(c), k)
        /\ priority(k.category) >= priority(c.category)

\* C17 as stated: every candidate that is absent from the merger output
\* overlaps at least one span of the output.
C17_NoLostCandidate_Original ==
    pc = "finalize" =>
        \A c \in InputSet : Absent(c) => \E o \in OutputSet : Intersect(c, o)

\* C17: every candidate that is absent from the merger output overlaps a span
\* of another candidate, of priority at least its own, that was accepted at
\* some step of the sweep; that rival is in the output unless a later
\* candidate replaced it.
C17_NoLostCandidate ==
    pc = "finalize" =>
        LET ever == EverAccepted(utter_entities)
        IN  \A c \in InputSet : Absent(c) => HasRival(c, ever)

\* a candidate discarded for an accepted span that a later candidate
\* replaced: it is absent, overlaps no span of the output and had a rival
C17_Witness ==
    /\ pc = "finalize"
    /\ \E c \in InputSet :
           /\ Absent(c)
           /\ \A o \in OutputSet : ~Intersect(c, o)
           /\ HasRival(c, EverAccepted(utter_entities))

\* the candidate list with the candidates of a blocklisted category taken out
WithoutBlocked(entities) ==
    LET Allowed(e) == ~IsBlocked(CategoryOf(e))
    IN  SelectSeq(entities, Allowed)

\* C18: blocklisted candidates do not influence the result: taking every
\* candidate of a blocklisted category out of the list before dedupe_entities
\* gives the same final entities from to_final_entities as leaving them in,
\* so a blocklisted candidate (a frame slot "name") never makes a candidate
\* of another category miss from the output.
C18_BlockedNoInfluence ==
    pc = "emitted" =>
        Range(to_final_entities(dedupe_entities(WithoutBlocked(utter_entities))))
            = Range(final_entities)


(***************************************************************************)
(* Properties of the pattern pass and of the first budget rule             *)
(***************************************************************************)
\* the date spans of the utterance as find_date_spans returned them
DateSpansOf == find_date_spans(raw, fails)

\* closed-interval intersection of a span <<start, end>> with an entity
SpanMeetsEntity(span, ent) == span[1] <= ent.endPos /\ ent.offset <= span[2]

\* C19: every span accepted by the pattern pass has a closed interval that
\* intersects no date span of find_date_spans and no span accepted earlier
\* in the same pass, also where the new match strictly contains the earlier
\* span.
C19_PatternPassOverlapFree ==
    pc = "patterned" =>
        \A i \in (Len(DateSpansOf) + 1)..Len(extracted) :
            /\ \A d \in DOMAIN DateSpansOf : ~SpanMeetsEntity(DateSpansOf[d], extracted[i])
            /\ \A j \in (Len(DateSpansOf) + 1)..(i - 1) : ~Intersect(extracted[j], extracted[i])


\* the closed interval of the token of the call intersects a date span
CallMeetsDateSpan ==
    \E d \in DOMAIN budget_call.date_spans :
        /\ budget_call.date_spans[d][1] <= budget_call.end
        /\ budget_call.start <= budget_call.date_spans[d][2]

\* C20: is_likely_budget_token returns False for every token whose closed
\* interval [start, end] intersects a date span (partial overlap, token
\* inside the date span, or date span inside the token), also when a
\* currency cue is in the window or a currency symbol stands right before
\* the token.
C20_DateSpanRejects ==
    (pc = "decided" /\ CallMeetsDateSpan) => budget_result = FALSE

\* the call is on a token of exactly four digits with a value in [1900, 2035]
\* that meets no date span, has no currency cue in its window and no
\* currency symbol right before it
PlainYearCall ==
    /\ pc = "decided"
    /\ DigitsOf(CallToken) = CallToken
    /\ IsPlausibleYear(CallToken)
    /\ ~CallMeetsDateSpan
    /\ ~HasCurrencyCue(CallWindow)
    /\ ~SymbolBefore(budget_call.text, budget_call.start)

\* line 77: the ten characters before the token, lower-cased
CallBefore ==
    LowerText(Slice(budget_call.text, Max(0, budget_call.start - BeforeLen),
                    budget_call.start))

\* C21 as stated: a plausible-year token with no date span, currency cue or
\* currency symbol is classified not-Budget, with or without a month-name
\* word in its window.
C21_PlausibleYear_Original ==
    PlainYearCall => budget_result = FALSE

\* C21: a plausible-year token with no date span, currency cue or currency
\* symbol is classified not-Budget when a month-name word is in its window;
\* without one the value rule of lines 75-80 decides: the token is a Budget
\* unless the word "on" is in the ten characters before it and a month-name
\* word is somewhere in the text.
C21_PlausibleYear ==
    PlainYearCall =>
        budget_result =
            (/\ ~SearchMonth(CallWindow)
             /\ ~(SearchOn(CallBefore) /\ SearchMonth(budget_call.text)))

\* a plausible year without a month-name word in its window, accepted as
\* Budget by the value rule
C21_Witness ==
    /\ PlainYearCall
    /\ ~SearchMonth(CallWindow)
    /\ budget_result = TRUE


\* a one-character currency cue stands at offset i of the text of the call
CueAt(i) ==
    /\ 0 <= i
    /\ i < Len(budget_call.text)
    /\ budget_call.text[i + 1] \in CurrencySymbols

\* C22: the window searched for a currency cue reaches 30 characters before
\* the first character of the token and 30 characters after its last
\* character: a one-character cue exactly 30 positions before the first
\* character, or exactly 30 positions after the last one, makes a token that
\* meets no date span a Budget.
C22_CueWindow ==
    (/\ pc = "decided"
     /\ ~CallMeetsDateSpan
     /\ CueAt(budget_call.start - Window) \/ CueAt(budget_call.end + Window))
        => budget_result = TRUE


(***************************************************************************)
(* Properties of the priority table                                        *)
(***************************************************************************)
\* line 378: the categories that have an entry in the priority table
ListedCategories == {"Date", "Budget", "Time", "Location", "AirportCode", "NumPassengers"}

\* the conflict of the n-th sorted candidate with the first accepted span it
\* overlaps is between a listed and an unlisted category and leaves the
\* listed span in the accepted list and the unlisted one out of it
ListedKept(uniq, n) ==
    LET result == SweepPrefix(uniq, n - 1)
        cand   == uniq[n]
        after  == SweepBody(result, cand)
        hits   == {k \in 1..Len(result) : Overlapping(cand, result[k])}
        kept   == result[CHOOSE k \in hits : \A h \in hits : k <= h]
    IN  hits # {} =>
            /\ (kept.category \in ListedCategories /\ cand.category \notin ListedCategories)
                   => (kept \in Range(after) /\ cand \notin Range(after))
            /\ (cand.category \in ListedCategories /\ kept.category \notin ListedCategories)
                   => (cand \in Range(after) /\ kept \notin Range(after))

\* C23: in every conflict that the sweep evaluates between a span of a
\* category of the priority table and a span of a category without an entry
\* (rank 0: DepartureDate of the pattern rules), the span of the listed
\* category is in the accepted list after the step and the other one is not,
\* whichever of the two is longer and whichever was accepted first.
C23_ListedWins ==
    pc = "finalize" =>
        LET uniq == SortedUniq(utter_entities)
        IN  \A n \in 1..Len(uniq) : ListedKept(uniq, n)

\* a sweep step in which a candidate of a listed category meets a longer span
\* of an unlisted category that was accepted before it, and takes its place
C23_Witness ==
    /\ pc = "finalize"
    /\ LET uniq == SortedUniq(utter_entities)
       IN  \E n \in 1..Len(uniq) :
               LET result == SweepPrefix(uniq, n - 1)
                   cand   == uniq[n]
               IN  \E k \in 1..Len(result) :
                       /\ Overlapping(cand, result[k])
                       /\ \A h \in 1..(k - 1) : ~Overlapping(cand, result[h])
                       /\ cand.category \in ListedCategories
                       /\ result[k].category \notin ListedCategories
                       /\ result[k].end - result[k].start > cand.end - cand.start
                       /\ cand \in Range(SweepPrefix(uniq, n))
                       /\ result[k] \notin Range(SweepPrefix(uniq, n))


(***************************************************************************)
(* Properties of the date extractor                                        *)
(***************************************************************************)
\* search_dates raised or gave an empty result (None or an empty list)
ParserFailed ==
    date_call.res.raises \/ date_call.res.value = None \/ date_call.res.pairs = <<>>

\* the spans of the returned list that carry a parsed value, in list order
PrimaryFound ==
    LET Parsed(sp) == sp[4] # None
    IN  SelectSeq(date_found, Parsed)

\* a list of (start, end, matched text, parsed value) tuples
IsSpanList(v) ==
    /\ DOMAIN v = 1..Len(v)
    /\ \A k \in DOMAIN v : Len(v[k]) = 4 /\ v[k][1] <= v[k][2]

\* C24: find_date_spans returns a list of spans for every text and every
\* behaviour of the parser (raising, None, an empty list, a list); when the
\* parser raises or gives an empty result, no span of the returned list
\* comes from the primary pass; and in every case each place
\* of the text where the strict YYYY[-/]M[-/]D pattern matches is a span of
\* the returned list, with no parsed value.
C24_DateExtractorNeverRaises ==
    /\ pc = "dates" =>
          IsSpanList(find_date_spans_text(date_call.text, date_call.res))
    /\ pc = "dated" =>
          /\ IsSpanList(date_found)
          /\ ParserFailed => PrimaryFound = <<>>
          /\ \A i \in 1..Len(date_call.text) : \A m, d \in 1..2 :
                 IsoMatchesAt(date_call.text, i, m, d) =>
                     \E k \in DOMAIN date_found :
                         date_found[k] =
                             <<i - 1, i + 4 + m + d,
                               SubSeq(date_call.text, i, i + 5 + m + d), None>>

\* a call in which the parser raised and the fallback scan found a date
C24_Witness ==
    /\ pc = "dated"
    /\ date_call.res.raises
    /\ \E k \in DOMAIN date_found : date_found[k][4] = None

\* the matched text occurs in the text at sequence index i, letters compared
\* without case
MatchedAt(match_text, i) ==
    /\ i + Len(match_text) - 1 <= Len(date_call.text)
    /\ \A k \in 1..Len(match_text) :
           LowerChar(date_call.text[i + k - 1]) = LowerChar(match_text[k])

\* the matched texts of the parser that occur in the text, in list order
OccurringPairs ==
    LET Occurs(mt) == \E i \in 1..Len(date_call.text) : MatchedAt(mt, i)
    IN  SelectSeq(date_call.res.pairs, Occurs)

\* C25: the spans of the primary pass are, in order, those of the matched
\* texts that occur in the text: each starts at the smallest offset at which
\* its matched text occurs without regard to letter case and ends at start +
\* len(matched text) - 1; a matched text that does not occur gives no span
\* and the pairs after it are still processed.
C25_OffsetRecovery ==
    (pc = "dated" /\ ~ParserFailed) =>
        /\ Len(PrimaryFound) = Len(OccurringPairs)
        /\ \A k \in DOMAIN PrimaryFound :
               LET sp == PrimaryFound[k]
                   mt == OccurringPairs[k]
               IN  /\ sp[3] = mt
                   /\ MatchedAt(mt, sp[1] + 1)
                   /\ \A j \in 1..sp[1] : ~MatchedAt(mt, j)
                   /\ sp[2] = sp[1] + Len(mt) - 1

\* a call in which the first matched text does not occur in the text and the
\* second occurs twice, first in another letter case: its span is the only
\* one of the primary pass and lies on the first occurrence
C25_Witness ==
    /\ pc = "dated"
    /\ Len(date_call.res.pairs) = 2
    /\ \A i \in 1..Len(date_call.text) : ~MatchedAt(date_call.res.pairs[1], i)
    /\ Cardinality({i \in 1..Len(date_call.text) : MatchedAt(date_call.res.pairs[2], i)}) = 2
    /\ SubSeq(date_call.text, 1, Len(date_call.res.pairs[2])) # date_call.res.pairs[2]
    /\ PrimaryFound = <<<<0, Len(date_call.res.pairs[2]) - 1, date_call.res.pairs[2], "dt">>>>


(***************************************************************************)
(* Properties of the pattern rules                                         *)
(***************************************************************************)
\* the entity list holds an entity of this category on one of these spans
HasMatchOf(entities, category, spans) ==
    \E i \in DOMAIN entities : \E j \in DOMAIN spans :
        /\ entities[i].category = category
        /\ entities[i].offset = spans[j][1]
        /\ entities[i].endPos = spans[j][2]

\* C26: when one rule of the pattern list raises re.error, the extraction
\* returns what it returns when that rule finds nothing and no rule fails:
\* the spans accepted before the rule are kept, every later rule of the list
\* is applied and the numeric-token budget pass runs.
C26_MalformedRuleSkipped ==
    (pc = "gazetteer" /\ fails \in Range(RuleSources)) =>
        extracted = extract_entities_from_text(Silence(raw, fails), use_spacy, "none")

\* an extraction in which a rule raised, a rule after it in the list gave an
\* entity and the numeric-token pass gave a Budget entity
C26_Witness ==
    /\ pc = "gazetteer"
    /\ \E k, j \in DOMAIN RuleSources :
           /\ fails = RuleSources[k]
           /\ k < j
           /\ RuleCategory[j] # "Budget"
           /\ HasMatchOf(extracted, RuleCategory[j], raw[RuleSources[j]])
    /\ raw["rule4"] = <<>> /\ raw["rule5"] = <<>>
    /\ HasMatchOf(extracted, "Budget", raw["num_budget"])


(***************************************************************************)
(* Properties of the patched adapter                                       *)
(***************************************************************************)
\* C27: a call of adapter.process_activity, once adapter.py is loaded, ends
\* without raising, after exactly one invocation of the library's
\* BotFrameworkAdapter.process_activity, with that invocation's result, or
\* with None when it raised.
C27_DelegatesOnce ==
    pc = "processed" =>
        /\ frames[1].status = "returned"
        /\ original_calls = 1
        /\ frames[1].value =
               (IF frames[1].original = "returns" THEN InvokeResponse ELSE None)

\* the handler that a step starts: the step adds it to the handlers
Starts(h) == handlers' = handlers (+) SetToBag({h})

\* the echo of line 119 has been sent in conversation c
EchoGiven(c) == \E h \in Pending : h.conv = c /\ h.sent[1].reply = "echo"

\* C28: once the echo of line 119 has been sent in a conversation, a message
\* 'search' or 'new' of that conversation is not answered by the echo again:
\* the slots and the offers are reset and the bot asks or presents.
C28_RestartPromise ==
    [][\A c \in ConvIds, w \in RestartWords :
          EchoGiven(c) =>
              ~\E h \in BagToSet(handlers') :
                  /\ Starts(h)
                  /\ h.conv = c
                  /\ h.sent = <<EchoReply(w)>>]_vars

Unfilled(state) == {i \in DOMAIN SlotNames : ~IsTruthy(state[SlotNames[i]])}

\* the dict of conversation c as the message finds it
Before(c) == IF c \in DOMAIN conversations THEN heap[conversations[c]] ELSE NewState

\* C29: the handler of a message that leaves a slot unfilled sends one
\* question, for the first unfilled slot in the order from, to, depart,
\* return, budget, and leaves offers and awaiting_confirmation as they were,
\* also when it returns; a handler that presents offers leaves no slot
\* unfilled.
C29_OneQuestion ==
    [][/\ \A h \in BagToSet(handlers') :
             Starts(h) =>
                 LET state == heap'[h.state]
                 IN  /\ Unfilled(state) # {} =>
                            /\ h.sent = <<Question(SlotNames[Least(Unfilled(state))])>>
                            /\ state.offers = Before(h.conv).offers
                            /\ state.awaiting_confirmation =
                                   Before(h.conv).awaiting_confirmation
                     /\ (\E i \in DOMAIN h.sent : h.sent[i].reply = "offers") =>
                            Unfilled(state) = {}
       /\ \A h \in Pending :
             (handlers' = Return(h) /\ h.sent[1].reply = "question") =>
                 /\ conversations' = conversations
                 /\ \A c \in DOMAIN conversations : Before(c)' = Before(c)]_vars

\* a handler asked for depart while return is unfilled too
C29_Witness ==
    \E c \in DOMAIN conversations, h \in Pending :
        /\ h.state = conversations[c]
        /\ h.sent = <<Question("depart")>>
        /\ IsTruthy(Before(c).from)
        /\ ~IsTruthy(Before(c).depart)
        /\ ~IsTruthy(Before(c).return)

\* C30: a stored conversation that awaits a confirmation has a non-empty
\* list of offers and its five slots filled, whatever handlers are at an
\* await.
C30_AwaitingHasOffers ==
    \A c \in DOMAIN conversations :
        Before(c).awaiting_confirmation =>
            /\ IsTruthy(Before(c).offers)
            /\ Unfilled(Before(c)) = {}

\* a conversation awaits a confirmation while the handler of a confirmation
\* of the conversation's earlier dict is at its await, about to pop
C30_Witness ==
    \E c \in DOMAIN conversations, h \in Pending :
        /\ Before(c).awaiting_confirmation
        /\ h.conv = c
        /\ h.pc = "booking"
        /\ h.state # conversations[c]

====
